---- MODULE Spec2Model ----
(***************************************************************************)
(* Rate governor of ai_instagram_organizer.py: LlamaRateLimiter and        *)
(* GeminiRateLimiter (counting semaphore, concurrent_requests counter and  *)
(* circuit breaker) together with the functions that drive them,           *)
(* analyze_with_llama and analyze_single_image_gemini_with_limiter.        *)
(*                                                                         *)
(* Threads interleave at the granularity of the limiter's lock: every      *)
(* "with self.lock" block, every semaphore operation and every unlocked    *)
(* read is one step of one worker.  time.time() is the integer clock       *)
(* `now`; two reads may see the same value, but the read that follows      *)
(* time.sleep(d) is later than the read before it by more than d.          *)
(*                                                                         *)
(* The rolling window (request_times) and throttle_factor, which acquire() *)
(* and release() also maintain, never influence the semaphore, the counter *)
(* or the circuit breaker: Limiter(w) leaves them alone, WindowLimiter(w)  *)
(* is the same limiter with both maintained as the code maintains them.    *)
(*                                                                         *)
(* The two filters of the pipeline, filter_similar_images (before the      *)
(* scoring) and filter_contextually_similar_images (after it), follow.     *)
(***************************************************************************)
EXTENDS Integers, Sequences, FiniteSets, TLC

VARIABLES
    kind,                \* which limiter class this run uses
    now,                 \* time.time()
    circuit_state,       \* self.circuit_state
    failure_count,       \* self.failure_count
    last_failure_time,   \* self.last_failure_time
    half_open_calls,     \* self.half_open_calls
    sem,                 \* value of self.semaphore
    concurrent_requests, \* self.concurrent_requests
    pc,                  \* position of each worker thread
    wake,                \* end of the worker's time.sleep(wait_time)
    attempt,             \* loop variable of analyze_with_llama's retry loop
    relArg,              \* argument `success` of the release() in progress
    relRet,              \* where the worker continues after release()
    calls,               \* number of scoring calls started so far
    acquired,            \* history: acquire() returned in the current call
    rejected,            \* history: acquire() raised in the current call
    gate,                \* history: what acquire() found at the circuit
    failSince,           \* history: a failure was recorded during the wait
    releases,            \* history: release() calls made in the current call
    attempts_made,       \* history: remote requests made in the current call
    recorded,            \* history: number of outcomes recorded by release()
    failRun,             \* history: length of the run of failures recorded last
    hoSucc,              \* history: successes recorded since HALF_OPEN began
    lastFailAt,          \* history: time of the latest recorded failure
    max_requests_per_minute, \* self.max_requests_per_minute
    adaptive_rate_limiting,  \* self.adaptive_rate_limiting
    base_batch_size,     \* config.llama['performance']['optimal_batch_size']
    request_times,       \* self.request_times
    recent_errors,       \* self.recent_errors
    throttle_factor,     \* self.throttle_factor, in thousandths
    batch_size,          \* the value get_optimal_batch_size() returned last
    image_paths,         \* filter_similar_images: the input list, by file content
    fpc,                 \* filter_similar_images: where the function stands
    pending,             \* futures as_completed() has not yielded yet
    hashes,              \* the dict hashes: its keys in insertion order
    failed_paths,        \* failed_paths
    idx,                 \* i of "for i, (path1, hash1) in enumerate(hash_items)"
    processed,           \* processed
    unique_paths,        \* unique_paths
    skipped_count,       \* skipped_count
    groups,              \* history: every similar_group built, in order
    enable_contextual_filtering, \* config.enable_contextual_filtering
    contextual_selection_strategy, \* config.contextual_selection_strategy
    analyzed_data,       \* filter_contextually_similar_images: the input list
    cpc,                 \* filter_contextually_similar_images: where it stands
    ci,                  \* i of "for i, photo1 in enumerate(analyzed_data)"
    processed_indices,   \* processed_indices
    context_groups,      \* context_groups, each photo named by its index
    filtered_photos,     \* the list the function returns, by index
    scorer,              \* the scoring function that received the response
    response,            \* the sub-score fields of the JSON the model returned
    spc,                 \* the scoring function: where it stands
    analysis,            \* the analysis dict the scoring function returns
    tries,               \* history: outcome of each attempt of the current call
    backoff,             \* history: every wait_time slept in the current call
    request_type,        \* make_rate_limited_request: request_type
    ai_max_retries,      \* config.ai_max_retries
    rattempt,            \* make_rate_limited_request: attempt
    rpc,                 \* make_rate_limited_request: where it stands
    rtries,              \* history: outcome of each requests.post of the call
    delays,              \* history: every delay slept in the call
    opc,                 \* analyze_images_gemini_optimized: where it stands
    num_paths,           \* len(image_paths) of analyze_images_gemini_optimized
    batches,             \* batches, each image named by its index
    batch_idx,           \* batch_idx, counted from 1
    target,              \* value of `calls` once the whole batch is submitted
    handed,              \* history: every batch handed to the worker pool
    bpc,                 \* analyze_batch_with_gemini: where it stands
    valid_paths,         \* len(valid_paths), the images named 1..valid_paths
    batch_error,         \* history: the error the batch request ended with
    fi,                  \* analyze_images_individually_fallback: i, from 1
    individual,          \* history: what the individual call of each image gave
    results,             \* the list the function returns, by image
    lpc,                 \* analyze_images_llama_optimized: where it stands
    limages,             \* len(image_paths), the images named 1..limages
    ai_parallel_workers, \* config.ai_parallel_workers
    li,                  \* i
    lmax_workers,        \* max_workers
    consecutive_failures, \* consecutive_failures
    batch_paths,         \* batch_paths, by image
    lj,                  \* position in "for future, path in futures", from 1
    batch_results,       \* batch_results, by image
    successful_analyses, \* successful_analyses
    llama_results,       \* results of analyze_images_llama_optimized, by image
    submitted,           \* history: times each image went to executor.submit
    future_outcome,      \* history: how the scoring call of each image ended
    lock,                \* self.lock: the thread that holds it, 0 if free
    mpc,                 \* per thread: the limiter method it is in, and where
    accessed,            \* history: accesses to the limiter's fields so far
    llama_rate_limiter,  \* the global _llama_rate_limiter: 0 is None
    instances,           \* number of LlamaRateLimiter objects constructed
    tpc,                 \* per thread: where it stands in analyze_with_llama
    mine,                \* per thread: the object its constructor call returned
    todo,                \* per thread: images it still has to score
    admitted_by,         \* history, per thread: the object whose acquire() ran
    mismatched,          \* history: a release() went to another object
    analysis_cache,      \* the global _analysis_cache, by cache key
    apc,                 \* per thread: the caching function it is in, and where
    cache_calls,         \* calls of the caching functions so far
    lookups,             \* history: the entries the cache checks have met, by age
    stored,              \* history: the results the cache writes were asked for
    launched,            \* the subprocess.Popen objects created so far
    process,             \* state.process: its place in launched, 0 is None
    exit_code,           \* state.exit_code
    finished_time,       \* state.finished_time
    logs,                \* state.logs: per line, the process it is about
    capture,             \* per process: where its _capture_process_output is
    request              \* the handler on the event loop, and where it stands

limiterVars == <<circuit_state, failure_count, last_failure_time, half_open_calls>>
workerVars  == <<pc, wake, attempt, relArg, relRet>>
ghostVars   == <<acquired, rejected, gate, failSince, releases, attempts_made,
                 recorded, failRun, hoSucc, lastFailAt>>
configVars  == <<max_requests_per_minute, adaptive_rate_limiting, base_batch_size>>
throttleVars == <<request_times, recent_errors, throttle_factor>>
\* Everything outside the semaphore, the counter and the circuit breaker.
dedupVars   == <<image_paths, fpc, pending, hashes, failed_paths, idx, processed,
                 unique_paths, skipped_count, groups>>
contextConfig == <<enable_contextual_filtering, contextual_selection_strategy>>
contextVars == <<contextConfig, analyzed_data, cpc, ci, processed_indices,
                 context_groups, filtered_photos>>
scoreVars   == <<scorer, response, spc, analysis>>
\* The stages of the pipeline around the limiter and the two filters.
retryVars   == <<tries, backoff>>
requestVars == <<request_type, ai_max_retries, rattempt, rpc, rtries, delays>>
driverVars  == <<opc, num_paths, batches, batch_idx, target, handed>>
fallbackVars == <<bpc, valid_paths, batch_error, fi, individual, results>>
llamaDriverVars == <<lpc, limages, ai_parallel_workers, li, lmax_workers,
                     consecutive_failures, batch_paths, lj, batch_results,
                     successful_analyses, llama_results, submitted, future_outcome>>
\* The stages modelled after the batch request.
lockVars    == <<lock, mpc, accessed>>
singletonVars == <<llama_rate_limiter, instances, tpc, mine, todo, admitted_by,
                   mismatched>>
cacheVars   == <<analysis_cache, apc, cache_calls, lookups, stored>>
runnerVars  == <<launched, process, exit_code, finished_time, logs, capture, request>>
laterVars   == <<llamaDriverVars, lockVars, singletonVars, cacheVars, runnerVars>>
batchingVars == <<driverVars, fallbackVars, laterVars>>
stageVars   == <<scoreVars, retryVars, requestVars, batchingVars>>
outerVars   == <<configVars, throttleVars, batch_size, dedupVars, contextVars, stageVars>>
vars == <<kind, now, limiterVars, sem, concurrent_requests, workerVars, calls, ghostVars,
          outerVars>>

(* ---- bounds of the model ---------------------------------------------- *)
NumWorkers == 2
MaxCalls == 5
MaxTime == 3

Workers == 1..NumWorkers

(* ---- limiter configuration -------------------------------------------- *)
max_concurrent == 1
failure_threshold == 3
recovery_timeout == 2
half_open_max_calls == 2
max_retries == 3

(* The limiter's circuit-breaker fields as one value. *)
Lim ==
    [circuit_state     |-> circuit_state,
     failure_count     |-> failure_count,
     last_failure_time |-> last_failure_time,
     half_open_calls   |-> half_open_calls]

SetLim(l) ==
    /\ circuit_state' = l.circuit_state
    /\ failure_count' = l.failure_count
    /\ last_failure_time' = l.last_failure_time
    /\ half_open_calls' = l.half_open_calls

Max(a, b) == IF a >= b THEN a ELSE b

(* ---- circuit breaker: is_circuit_open / record_success / record_failure - *)

\* is_circuit_open() comparing with >= : recovery begins one tick early.
is_circuit_open_early(l, t) ==
    IF l.circuit_state = "OPEN"
    THEN IF t - l.last_failure_time >= recovery_timeout
         THEN [open |-> FALSE,
               lim  |-> [l EXCEPT !.circuit_state = "HALF_OPEN", !.half_open_calls = 0]]
         ELSE [open |-> TRUE, lim |-> l]
    ELSE [open |-> FALSE, lim |-> l]

\* is_circuit_open() without the lazy recovery: OPEN stays OPEN.
is_circuit_open_stuck(l, t) ==
    [open |-> l.circuit_state = "OPEN", lim |-> l]

\* is_circuit_open(): the value returned and the limiter it leaves behind.
is_circuit_open(l, t) ==
    IF l.circuit_state = "OPEN"
    THEN IF t - l.last_failure_time > recovery_timeout
         THEN [open |-> FALSE,
               lim  |-> [l EXCEPT !.circuit_state = "HALF_OPEN", !.half_open_calls = 0]]
         ELSE [open |-> TRUE, lim |-> l]
    ELSE [open |-> FALSE, lim |-> l]

\* record_success() comparing with > : one success too many is needed.
record_success_late(l) ==
    IF l.circuit_state = "HALF_OPEN"
    THEN IF l.half_open_calls + 1 > half_open_max_calls
         THEN [l EXCEPT !.half_open_calls = l.half_open_calls + 1,
                        !.circuit_state = "CLOSED",
                        !.failure_count = 0]
         ELSE [l EXCEPT !.half_open_calls = l.half_open_calls + 1]
    ELSE IF l.circuit_state = "CLOSED" /\ l.failure_count > 0
         THEN [l EXCEPT !.failure_count = Max(0, l.failure_count - 1)]
         ELSE l

\* record_success() closing the circuit without failure_count = 0.
record_success_keeping_count(l) ==
    IF l.circuit_state = "HALF_OPEN"
    THEN IF l.half_open_calls + 1 >= half_open_max_calls
         THEN [l EXCEPT !.half_open_calls = l.half_open_calls + 1,
                        !.circuit_state = "CLOSED"]
         ELSE [l EXCEPT !.half_open_calls = l.half_open_calls + 1]
    ELSE IF l.circuit_state = "CLOSED" /\ l.failure_count > 0
         THEN [l EXCEPT !.failure_count = Max(0, l.failure_count - 1)]
         ELSE l

record_success(l) ==
    IF l.circuit_state = "HALF_OPEN"
    THEN IF l.half_open_calls + 1 >= half_open_max_calls
         THEN [l EXCEPT !.half_open_calls = l.half_open_calls + 1,
                        !.circuit_state = "CLOSED",
                        !.failure_count = 0]
         ELSE [l EXCEPT !.half_open_calls = l.half_open_calls + 1]
    ELSE IF l.circuit_state = "CLOSED" /\ l.failure_count > 0
         THEN [l EXCEPT !.failure_count = Max(0, l.failure_count - 1)]
         ELSE l

\* record_failure() comparing with > : the circuit opens one failure late.
record_failure_late(l, t) ==
    LET counted == [l EXCEPT !.failure_count = l.failure_count + 1,
                             !.last_failure_time = t]
    IN  IF l.circuit_state = "HALF_OPEN"
        THEN [counted EXCEPT !.circuit_state = "OPEN"]
        ELSE IF counted.failure_count > failure_threshold
             THEN [counted EXCEPT !.circuit_state = "OPEN"]
             ELSE counted

record_failure(l, t) ==
    LET counted == [l EXCEPT !.failure_count = l.failure_count + 1,
                             !.last_failure_time = t]
    IN  IF l.circuit_state = "HALF_OPEN"
        THEN [counted EXCEPT !.circuit_state = "OPEN"]
        ELSE IF counted.failure_count >= failure_threshold
             THEN [counted EXCEPT !.circuit_state = "OPEN"]
             ELSE counted

\* The wait computed one tick short.
recovery_wait_short(l, t) == recovery_timeout - (t - l.last_failure_time) - 1

\* acquire(): wait_time = recovery_timeout - (time.time() - last_failure_time)
recovery_wait(l, t) == recovery_timeout - (t - l.last_failure_time)

(* ---- initial state ----------------------------------------------------- *)
\* throttle_factor is kept in thousandths: 1000 is 1.0.
Unit == 1000

\* self.throttle_factor = 1.0 (Llama), 0.7 (Gemini)
initial_throttle(k) == IF k = "llama" THEN 1000 ELSE 700

\* llama_perf.get('max_requests_per_minute', 2000), gemini_perf.get(..., 1500)
default_requests_per_minute(k) == IF k = "llama" THEN 2000 ELSE 1500

\* filter_similar_images has not been called.
DedupIdle ==
    /\ image_paths = <<>>
    /\ fpc = "idle"
    /\ pending = {}
    /\ hashes = <<>>
    /\ failed_paths = <<>>
    /\ idx = 0
    /\ processed = {}
    /\ unique_paths = <<>>
    /\ skipped_count = 0
    /\ groups = <<>>

\* filter_contextually_similar_images has not been called.
ContextIdle ==
    /\ enable_contextual_filtering = TRUE
    /\ contextual_selection_strategy = "highest_score"
    /\ analyzed_data = <<>>
    /\ cpc = "idle"
    /\ ci = 0
    /\ processed_indices = {}
    /\ context_groups = <<>>
    /\ filtered_photos = <<>>

\* No scoring response is being turned into a record.
ScoringIdle ==
    /\ scorer = "none"
    /\ response = <<>>
    /\ spc = "idle"
    /\ analysis = <<>>

\* No stage around the limiter and the filters is running.
\* No remote call has been attempted.
RetryIdle ==
    /\ tries = [w \in Workers |-> <<>>]
    /\ backoff = [w \in Workers |-> <<>>]

\* make_rate_limited_request has not been called.
RequestIdle ==
    /\ request_type = "batch"
    /\ ai_max_retries = 3
    /\ rattempt = 0
    /\ rpc = "idle"
    /\ rtries = <<>>
    /\ delays = <<>>

\* analyze_images_gemini_optimized has not been called.
DriverIdle ==
    /\ opc = "idle"
    /\ num_paths = 0
    /\ batches = <<>>
    /\ batch_idx = 0
    /\ target = 0
    /\ handed = <<>>

\* analyze_batch_with_gemini has not been called.
FallbackIdle ==
    /\ bpc = "idle"
    /\ valid_paths = 0
    /\ batch_error = "none"
    /\ fi = 0
    /\ individual = <<>>
    /\ results = <<>>

\* analyze_images_llama_optimized has not been called.
LlamaDriverIdle ==
    /\ lpc = "idle"
    /\ limages = 0
    /\ ai_parallel_workers = 10
    /\ li = 0
    /\ lmax_workers = 0
    /\ consecutive_failures = 0
    /\ batch_paths = <<>>
    /\ lj = 0
    /\ batch_results = <<>>
    /\ successful_analyses = 0
    /\ llama_results = <<>>
    /\ submitted = <<>>
    /\ future_outcome = <<>>

\* No thread is inside a method of the limiter.
LockIdle ==
    /\ lock = 0
    /\ mpc = [w \in Workers |-> [method |-> "none", segment |-> 0, phase |-> "out"]]
    /\ accessed = {}

\* No thread has called analyze_with_llama; the global holds None.
SingletonIdle ==
    /\ llama_rate_limiter = 0
    /\ instances = 0
    /\ tpc = <<>>
    /\ mine = <<>>
    /\ todo = <<>>
    /\ admitted_by = <<>>
    /\ mismatched = FALSE

\* No image has gone through the analysis cache.
CacheIdle ==
    /\ analysis_cache = <<>>
    /\ apc = <<>>
    /\ cache_calls = 0
    /\ lookups = {}
    /\ stored = {}

\* No handler is running on the event loop; answer is what the last one
\* returned.
NoRequest(answer) ==
    [handler |-> "none", at |-> "idle", proc |-> 0, force |-> FALSE, timed_out |-> FALSE,
     answer |-> answer]

\* The web server has not been imported.
RunnerIdle ==
    /\ launched = <<>>
    /\ process = 0
    /\ exit_code = "None"
    /\ finished_time = "None"
    /\ logs = {}
    /\ capture = <<>>
    /\ request = NoRequest("none")

LaterIdle == LlamaDriverIdle /\ LockIdle /\ SingletonIdle /\ CacheIdle /\ RunnerIdle

BatchingIdle == DriverIdle /\ FallbackIdle /\ LaterIdle

StagesIdle == ScoringIdle /\ RetryIdle /\ RequestIdle /\ BatchingIdle

\* No filtering stage of the pipeline is running, nor any stage around them.
NoFiltering == DedupIdle /\ ContextIdle /\ StagesIdle

\* No worker has a call in flight: every slot is free and no history is kept.
NoCallInFlight ==
    /\ now = 0
    /\ sem = max_concurrent
    /\ concurrent_requests = 0
    /\ pc = [w \in Workers |-> "idle"]
    /\ wake = [w \in Workers |-> 0]
    /\ attempt = [w \in Workers |-> 0]
    /\ relArg = [w \in Workers |-> TRUE]
    /\ relRet = [w \in Workers |-> "idle"]
    /\ calls = 0
    /\ acquired = [w \in Workers |-> FALSE]
    /\ rejected = [w \in Workers |-> FALSE]
    /\ gate = [w \in Workers |-> "none"]
    /\ failSince = [w \in Workers |-> FALSE]
    /\ releases = [w \in Workers |-> 0]
    /\ attempts_made = [w \in Workers |-> 0]
    /\ recorded = 0
    /\ failRun = 0
    /\ hoSucc = 0
    /\ lastFailAt = 0
    /\ batch_size = 0

\* __init__ for the limiter class `kind` and the configuration already chosen.
Constructed ==
    /\ circuit_state = "CLOSED"
    /\ failure_count = 0
    /\ last_failure_time = 0
    /\ half_open_calls = 0
    /\ request_times = <<>>
    /\ recent_errors = <<>>
    /\ throttle_factor = initial_throttle(kind)
    /\ NoCallInFlight

\* The limiter as constructed from a configuration without a performance section.
Init ==
    /\ kind \in {"llama", "gemini"}
    /\ max_requests_per_minute = default_requests_per_minute(kind)
    /\ adaptive_rate_limiting = TRUE
    /\ base_batch_size = 2
    /\ Constructed
    /\ NoFiltering

\* History kept with a change of the limiter from l to m: hoSucc restarts when
\* HALF_OPEN is entered.
EnterHalfOpen(l, m) == l.circuit_state # "HALF_OPEN" /\ m.circuit_state = "HALF_OPEN"

(* ---- the clock --------------------------------------------------------- *)
Tick ==
    /\ now < MaxTime
    /\ now' = now + 1
    /\ UNCHANGED <<kind, outerVars, limiterVars, sem, concurrent_requests, workerVars, calls, ghostVars>>

(* ---- a worker picks up the next image ---------------------------------- *)
\* The scoring function returns: its locals are gone, and the history of the
\* call is cleared with them.
Return(w) ==
    /\ pc' = [pc EXCEPT ![w] = "idle"]
    /\ wake' = [wake EXCEPT ![w] = 0]
    /\ attempt' = [attempt EXCEPT ![w] = 0]
    /\ acquired' = [acquired EXCEPT ![w] = FALSE]
    /\ rejected' = [rejected EXCEPT ![w] = FALSE]
    /\ gate' = [gate EXCEPT ![w] = "none"]
    /\ failSince' = [failSince EXCEPT ![w] = FALSE]
    /\ releases' = [releases EXCEPT ![w] = 0]
    /\ attempts_made' = [attempts_made EXCEPT ![w] = 0]

\* The worker starts its next scoring call, while fewer than n were started.
StartUpTo(w, n) ==
    /\ pc[w] = "idle"
    /\ calls < n
    /\ calls' = calls + 1
    /\ pc' = [pc EXCEPT ![w] = "acq_check"]
    /\ UNCHANGED <<kind, outerVars, now, limiterVars, sem, concurrent_requests, wake,
                   attempt, relArg, relRet, ghostVars>>

StartCall(w) == StartUpTo(w, MaxCalls)

(* ---- acquire() --------------------------------------------------------- *)
\* if self.is_circuit_open():
AcquireCheck(w) ==
    /\ pc[w] = "acq_check"
    /\ LET r == is_circuit_open(Lim, now)
       IN  /\ SetLim(r.lim)
           /\ hoSucc' = IF EnterHalfOpen(Lim, r.lim) THEN 0 ELSE hoSucc
           /\ pc' = [pc EXCEPT ![w] = IF r.open THEN "acq_calc" ELSE "acq_sem"]
           /\ gate' = [gate EXCEPT ![w] = IF r.open THEN "open" ELSE "none"]
    /\ UNCHANGED <<kind, outerVars, now, sem, concurrent_requests, wake, attempt, relArg, relRet,
                   calls, acquired, rejected, failSince, releases, attempts_made,
                   recorded, failRun, lastFailAt>>

\* wait_time = ...; if wait_time > 0: time.sleep(wait_time)
AcquireWait(w) ==
    /\ pc[w] = "acq_calc"
    /\ LET wait_time == recovery_wait(Lim, now)
       IN  IF wait_time > 0
           THEN /\ wake' = [wake EXCEPT ![w] = now + wait_time]
                /\ gate' = [gate EXCEPT ![w] = "slept"]
                /\ pc' = [pc EXCEPT ![w] = "acq_sleep"]
           ELSE /\ pc' = [pc EXCEPT ![w] = "acq_recheck"]
                /\ UNCHANGED <<wake, gate>>
    /\ failSince' = [failSince EXCEPT ![w] = FALSE]
    /\ UNCHANGED <<kind, outerVars, now, limiterVars, sem, concurrent_requests, attempt, relArg,
                   relRet, calls, acquired, rejected, releases, attempts_made,
                   recorded, failRun, hoSucc, lastFailAt>>

\* time.sleep(wait_time) returns
AcquireWake(w) ==
    /\ pc[w] = "acq_sleep"
    /\ now > wake[w]
    /\ pc' = [pc EXCEPT ![w] = "acq_recheck"]
    /\ UNCHANGED <<kind, outerVars, now, limiterVars, sem, concurrent_requests, wake, attempt,
                   relArg, relRet, calls, ghostVars>>

\* if self.is_circuit_open(): raise Exception("Circuit breaker is OPEN ...")
AcquireRecheck(w) ==
    /\ pc[w] = "acq_recheck"
    /\ LET r == is_circuit_open(Lim, now)
       IN  /\ SetLim(r.lim)
           /\ hoSucc' = IF EnterHalfOpen(Lim, r.lim) THEN 0 ELSE hoSucc
           /\ pc' = [pc EXCEPT ![w] = IF r.open THEN "raised" ELSE "acq_sem"]
           /\ rejected' = [rejected EXCEPT ![w] = r.open]
    /\ UNCHANGED <<kind, outerVars, now, sem, concurrent_requests, wake, attempt, relArg, relRet,
                   calls, acquired, gate, failSince, releases, attempts_made,
                   recorded, failRun, lastFailAt>>

\* A semaphore that never blocks.
SemaphoreAcquireUnguarded(w) ==
    /\ pc[w] = "acq_sem"
    /\ sem' = sem - 1
    /\ pc' = [pc EXCEPT ![w] = "acq_record"]
    /\ UNCHANGED <<kind, outerVars, now, limiterVars, concurrent_requests, wake, attempt, relArg,
                   relRet, calls, ghostVars>>

\* the back-off sleep, then self.semaphore.acquire()
SemaphoreAcquire(w) ==
    /\ pc[w] = "acq_sem"
    /\ sem > 0
    /\ sem' = sem - 1
    /\ pc' = [pc EXCEPT ![w] = "acq_record"]
    /\ UNCHANGED <<kind, outerVars, now, limiterVars, concurrent_requests, wake, attempt, relArg,
                   relRet, calls, ghostVars>>

\* the rate-window sleep, then "with self.lock: ... self.concurrent_requests += 1"
AcquireRecord(w) ==
    /\ pc[w] = "acq_record"
    /\ concurrent_requests' = concurrent_requests + 1
    /\ acquired' = [acquired EXCEPT ![w] = TRUE]
    /\ pc' = [pc EXCEPT ![w] = "holding"]
    /\ UNCHANGED <<kind, outerVars, now, limiterVars, sem, wake, attempt, relArg, relRet, calls,
                   rejected, gate, failSince, releases, attempts_made, recorded, failRun,
                   hoSucc, lastFailAt>>

(* ---- release(success) -------------------------------------------------- *)
\* The caller's call of release(success), returning to `ret` afterwards.
CallRelease(w, success, ret) ==
    /\ pc' = [pc EXCEPT ![w] = "rel_record"]
    /\ relArg' = [relArg EXCEPT ![w] = success]
    /\ relRet' = [relRet EXCEPT ![w] = ret]
    /\ releases' = [releases EXCEPT ![w] = releases[w] + 1]

\* if success: self.record_success() else: self.record_failure()
ReleaseRecord(w) ==
    /\ pc[w] = "rel_record"
    /\ LET m == IF relArg[w] THEN record_success(Lim) ELSE record_failure(Lim, now)
       IN  /\ SetLim(m)
           /\ hoSucc' = IF relArg[w] /\ circuit_state = "HALF_OPEN"
                        THEN hoSucc + 1 ELSE hoSucc
    /\ recorded' = recorded + 1
    /\ failRun' = IF relArg[w] THEN 0 ELSE failRun + 1
    /\ lastFailAt' = IF relArg[w] THEN lastFailAt ELSE now
    /\ failSince' = [v \in Workers |->
                        failSince[v] \/ (~relArg[w] /\ pc[v] \in {"acq_sleep", "acq_recheck"})]
    /\ pc' = [pc EXCEPT ![w] = "rel_dec"]
    /\ UNCHANGED <<kind, outerVars, now, sem, concurrent_requests, wake, attempt, relArg, relRet,
                   calls, acquired, rejected, gate, releases, attempts_made>>

\* with self.lock: self.concurrent_requests -= 1
ReleaseDecrement(w) ==
    /\ pc[w] = "rel_dec"
    /\ concurrent_requests' = concurrent_requests - 1
    /\ pc' = [pc EXCEPT ![w] = "rel_sem"]
    /\ UNCHANGED <<kind, outerVars, now, limiterVars, sem, wake, attempt, relArg, relRet, calls,
                   ghostVars>>

\* self.semaphore.release() that does not give the slot back.
SemaphoreReleaseLost(w) ==
    /\ pc[w] = "rel_sem"
    /\ sem' = sem
    /\ relArg' = [relArg EXCEPT ![w] = TRUE]
    /\ relRet' = [relRet EXCEPT ![w] = "idle"]
    /\ IF relRet[w] = "idle"
       THEN Return(w)
       ELSE /\ pc' = [pc EXCEPT ![w] = relRet[w]]
            /\ UNCHANGED <<wake, attempt, acquired, rejected, gate, failSince,
                           releases, attempts_made>>
    /\ UNCHANGED <<kind, outerVars, now, limiterVars, concurrent_requests, calls, recorded,
                   failRun, hoSucc, lastFailAt>>

\* self.semaphore.release(), and release() returns to its caller
SemaphoreRelease(w) ==
    /\ pc[w] = "rel_sem"
    /\ sem' = sem + 1
    /\ relArg' = [relArg EXCEPT ![w] = TRUE]
    /\ relRet' = [relRet EXCEPT ![w] = "idle"]
    /\ IF relRet[w] = "idle"
       THEN Return(w)
       ELSE /\ pc' = [pc EXCEPT ![w] = relRet[w]]
            /\ UNCHANGED <<wake, attempt, acquired, rejected, gate, failSince,
                           releases, attempts_made>>
    /\ UNCHANGED <<kind, outerVars, now, limiterVars, concurrent_requests, calls, recorded,
                   failRun, hoSucc, lastFailAt>>

(* ---- analyze_with_llama ------------------------------------------------ *)
\* except Exception around acquire(): return None
LlamaRejected(w) ==
    /\ kind = "llama"
    /\ pc[w] = "raised"
    /\ Return(w)
    /\ UNCHANGED <<kind, outerVars, now, limiterVars, sem, concurrent_requests, relArg, relRet,
                   calls, recorded, failRun, hoSucc, lastFailAt>>

\* One pass of "for attempt in range(max_retries)": requests.post answers with a
\* good status (break), or the attempt fails (status 500, another error status
\* raised by raise_for_status, a timeout or a connection error), which is
\* retried while attempt < max_retries - 1 and raised to the outer handler
\* otherwise.
LlamaAttempt(w) ==
    /\ kind = "llama"
    /\ pc[w] = "holding"
    /\ attempts_made' = [attempts_made EXCEPT ![w] = attempts_made[w] + 1]
    /\ \E ok \in BOOLEAN :
         IF ok
         THEN /\ pc' = [pc EXCEPT ![w] = "json"]
              /\ UNCHANGED <<attempt, relArg, relRet, releases>>
         ELSE IF attempt[w] < max_retries - 1
              THEN /\ attempt' = [attempt EXCEPT ![w] = attempt[w] + 1]
                   /\ UNCHANGED <<pc, relArg, relRet, releases>>
              ELSE /\ CallRelease(w, FALSE, "idle")
                   /\ UNCHANGED attempt
    /\ UNCHANGED <<kind, outerVars, now, limiterVars, sem, concurrent_requests, wake, calls,
                   acquired, rejected, gate, failSince, recorded, failRun, hoSucc, lastFailAt>>

\* response_data = response.json(), which may raise, then release(success=True)
LlamaResponse(w) ==
    /\ kind = "llama"
    /\ pc[w] = "json"
    /\ \E decoded \in BOOLEAN :
         IF decoded
         THEN CallRelease(w, TRUE, "parse")
         ELSE CallRelease(w, FALSE, "idle")
    /\ UNCHANGED <<kind, outerVars, now, limiterVars, sem, concurrent_requests, wake, attempt,
                   calls, acquired, rejected, gate, failSince, attempts_made,
                   recorded, failRun, hoSucc, lastFailAt>>

\* Everything after release(success=True) inside the try block: it returns, or
\* it raises (a KeyError from response_data['choices'][0]['message'], a
\* TypeError from a non-numeric score, ...) into "except Exception", which calls
\* release(success=False).
LlamaParse(w) ==
    /\ kind = "llama"
    /\ pc[w] = "parse"
    /\ \E raises \in BOOLEAN :
         IF raises
         THEN /\ CallRelease(w, FALSE, "idle")
              /\ UNCHANGED <<wake, attempt, acquired, rejected, gate, failSince,
                             attempts_made>>
         ELSE /\ Return(w)
              /\ UNCHANGED <<relArg, relRet>>
    /\ UNCHANGED <<kind, outerVars, now, limiterVars, sem, concurrent_requests, calls, recorded,
                   failRun, hoSucc, lastFailAt>>

(* ---- analyze_single_image_gemini_with_limiter -------------------------- *)
\* acquire() raised inside the try block: except Exception: release(success=False)
GeminiRejected(w) ==
    /\ kind = "gemini"
    /\ pc[w] = "raised"
    /\ CallRelease(w, FALSE, "idle")
    /\ UNCHANGED <<kind, outerVars, now, limiterVars, sem, concurrent_requests, wake, attempt,
                   calls, acquired, rejected, gate, failSince, attempts_made,
                   recorded, failRun, hoSucc, lastFailAt>>

\* result = analyze_single_image_gemini_direct(...), which catches every error
\* and returns None; then release(success=result is not None)
GeminiDirect(w) ==
    /\ kind = "gemini"
    /\ pc[w] = "holding"
    /\ attempts_made' = [attempts_made EXCEPT ![w] = attempts_made[w] + 1]
    /\ \E result_ok \in BOOLEAN : CallRelease(w, result_ok, "idle")
    /\ UNCHANGED <<kind, outerVars, now, limiterVars, sem, concurrent_requests, wake, attempt,
                   calls, acquired, rejected, gate, failSince, recorded, failRun, hoSucc,
                   lastFailAt>>

(* ---- a caller that keeps the acquire/release protocol ------------------ *)
\* One remote call, then exactly one release() for the acquire() that returned.
ProtocolCall(w) ==
    /\ pc[w] = "holding"
    /\ attempts_made' = [attempts_made EXCEPT ![w] = attempts_made[w] + 1]
    /\ \E success \in BOOLEAN : CallRelease(w, success, "idle")
    /\ UNCHANGED <<kind, outerVars, now, limiterVars, sem, concurrent_requests, wake, attempt,
                   calls, acquired, rejected, gate, failSince, recorded, failRun, hoSucc,
                   lastFailAt>>

\* acquire() raised: nothing was acquired, so nothing is released.
ProtocolRejected(w) ==
    /\ pc[w] = "raised"
    /\ Return(w)
    /\ UNCHANGED <<kind, outerVars, now, limiterVars, sem, concurrent_requests, relArg, relRet,
                   calls, recorded, failRun, hoSucc, lastFailAt>>

(* ---- specifications ---------------------------------------------------- *)
Limiter(w) ==
    \/ StartCall(w)
    \/ AcquireCheck(w)
    \/ AcquireWait(w)
    \/ AcquireWake(w)
    \/ AcquireRecheck(w)
    \/ SemaphoreAcquire(w)
    \/ AcquireRecord(w)
    \/ ReleaseRecord(w)
    \/ ReleaseDecrement(w)
    \/ SemaphoreRelease(w)

\* The limiter driven by the repository's own callers.
Next ==
    \/ Tick
    \/ \E w \in Workers :
         \/ Limiter(w)
         \/ LlamaRejected(w)
         \/ LlamaAttempt(w)
         \/ LlamaResponse(w)
         \/ LlamaParse(w)
         \/ GeminiRejected(w)
         \/ GeminiDirect(w)

Spec == Init /\ [][Next]_vars

\* The Gemini limiter alone with its caller (the run of
\* analyze_images_gemini_optimized).
NextGemini ==
    \/ Tick
    \/ \E w \in Workers :
         \/ Limiter(w)
         \/ GeminiRejected(w)
         \/ GeminiDirect(w)

InitGemini == Init /\ kind = "gemini"

SpecGemini == InitGemini /\ [][NextGemini]_vars

\* The limiter driven by callers that keep the acquire/release protocol.
NextProtocol ==
    \/ Tick
    \/ \E w \in Workers :
         \/ Limiter(w)
         \/ ProtocolCall(w)
         \/ ProtocolRejected(w)

SpecProtocol == Init /\ [][NextProtocol]_vars

(* ---- the rolling window: wait_for_slot, and the tail of acquire() ------ *)
\* The window of wait_for_slot() (60 s) and the window of release() (300 s),
\* in ticks of the clock.
rate_window == 1
error_window == 2

\* The largest max_requests_per_minute configured where the window is studied.
MaxRate == 3

\* int(self.max_requests_per_minute * self.throttle_factor)
effective_limit(m, t) == (m * t) \div Unit

\* wait_for_slot(): the time to wait and whether acquire() sleeps for it
\* ("if wait_time > 0").  The Llama limiter returns max(0, wait_time); the
\* Gemini limiter returns max(0.1, wait_time), which is always slept.  Its
\* per-second branch needs max_requests_per_second = 25 entries in
\* requests_this_second, more than the calls any run here makes.
wait_for_slot(k, rt, m, t, n) ==
    IF rt = <<>>
    THEN [wait |-> 0, sleeps |-> FALSE]
    ELSE IF Len(rt) >= effective_limit(m, t)
         THEN LET wait_time == rate_window - (n - rt[1])
              IN  [wait |-> Max(0, wait_time),
                   sleeps |-> IF k = "llama" THEN wait_time > 0 ELSE TRUE]
         ELSE [wait |-> 0, sleeps |-> FALSE]

\* wait_time = self.wait_for_slot(); if wait_time > 0: time.sleep(wait_time)
WaitForSlot(w) ==
    /\ pc[w] = "acq_record"
    /\ LET r == wait_for_slot(kind, request_times, max_requests_per_minute,
                              throttle_factor, now)
       IN  IF r.sleeps
           THEN /\ wake' = [wake EXCEPT ![w] = now + r.wait]
                /\ pc' = [pc EXCEPT ![w] = "slot_sleep"]
           ELSE /\ pc' = [pc EXCEPT ![w] = "acq_append"]
                /\ UNCHANGED wake
    /\ UNCHANGED <<kind, outerVars, now, limiterVars, sem, concurrent_requests, attempt,
                   relArg, relRet, calls, ghostVars>>

\* time.sleep(wait_time) returns
SlotWake(w) ==
    /\ pc[w] = "slot_sleep"
    /\ now > wake[w]
    /\ pc' = [pc EXCEPT ![w] = "acq_append"]
    /\ UNCHANGED <<kind, outerVars, now, limiterVars, sem, concurrent_requests, wake,
                   attempt, relArg, relRet, calls, ghostVars>>

\* with self.lock: self.request_times.append(time.time());
\*                 self.concurrent_requests += 1
AcquireAppend(w) ==
    /\ pc[w] = "acq_append"
    /\ request_times' = Append(request_times, now)
    /\ concurrent_requests' = concurrent_requests + 1
    /\ acquired' = [acquired EXCEPT ![w] = TRUE]
    /\ pc' = [pc EXCEPT ![w] = "holding"]
    /\ UNCHANGED <<kind, configVars, recent_errors, throttle_factor, batch_size,
                   dedupVars, contextVars, stageVars, now,
                   limiterVars, sem, wake, attempt, relArg, relRet, calls,
                   rejected, gate, failSince, releases, attempts_made, recorded, failRun,
                   hoSucc, lastFailAt>>

(* ---- the adaptive throttle: the locked block of release() -------------- *)
\* throttle_factor * f for a factor f in thousandths, to the nearest thousandth.
Scaled(t, f) == (t * f + Unit \div 2) \div Unit

Min(a, b) == IF a <= b THEN a ELSE b

\* while self.recent_errors and now - self.recent_errors[0] > 300: popleft()
RECURSIVE remove_old_errors(_, _)
remove_old_errors(errs, n) ==
    IF errs # <<>> /\ n - errs[1] > error_window
    THEN remove_old_errors(Tail(errs), n)
    ELSE errs

\* len([t for t in self.request_times if now - t < 300])
total_recent(rt, n) == Cardinality({i \in 1..Len(rt) : n - rt[i] < error_window})

\* "if total_recent > 10" (Llama), "if total_recent > 5" (Gemini)
min_samples(k) == IF k = "llama" THEN 10 ELSE 5

\* The updates without their max() and min().
adjust_throttle_unclamped(k, t, errors, total) ==
    IF k = "llama"
    THEN IF errors * 100 > 15 * total THEN Scaled(t, 800)
         ELSE IF errors * 100 > 5 * total THEN Scaled(t, 900)
         ELSE IF errors * 100 < 2 * total THEN Scaled(t, 1020)
         ELSE t
    ELSE IF errors * 100 > 10 * total THEN Scaled(t, 600)
         ELSE IF errors * 100 > 5 * total THEN Scaled(t, 800)
         ELSE IF errors * 100 < 1 * total THEN Scaled(t, 1010)
         ELSE t

\* The three watermarks and their updates, for error_rate = errors / total.
adjust_throttle(k, t, errors, total) ==
    IF k = "llama"
    THEN IF errors * 100 > 15 * total THEN Max(300, Scaled(t, 800))
         ELSE IF errors * 100 > 5 * total THEN Max(500, Scaled(t, 900))
         ELSE IF errors * 100 < 2 * total THEN Min(1000, Scaled(t, 1020))
         ELSE t
    ELSE IF errors * 100 > 10 * total THEN Max(200, Scaled(t, 600))
         ELSE IF errors * 100 > 5 * total THEN Max(400, Scaled(t, 800))
         ELSE IF errors * 100 < 1 * total THEN Min(800, Scaled(t, 1010))
         ELSE t

\* recent_errors once release(success) has appended to it and pruned it.
errors_after(errs, success, n) ==
    remove_old_errors(IF success THEN errs ELSE Append(errs, n), n)

\* with self.lock: self.concurrent_requests -= 1; if self.adaptive_rate_limiting: ...
ReleaseAdjust(w) ==
    /\ pc[w] = "rel_dec"
    /\ concurrent_requests' = concurrent_requests - 1
    /\ IF adaptive_rate_limiting
       THEN LET errs == errors_after(recent_errors, relArg[w], now)
                total == total_recent(request_times, now)
            IN  /\ recent_errors' = errs
                /\ throttle_factor' =
                      IF total > min_samples(kind)
                      THEN adjust_throttle(kind, throttle_factor, Len(errs), total)
                      ELSE throttle_factor
       ELSE UNCHANGED <<recent_errors, throttle_factor>>
    /\ pc' = [pc EXCEPT ![w] = "rel_sem"]
    /\ UNCHANGED <<kind, configVars, request_times, batch_size, dedupVars,
                   contextVars, stageVars, now,
                   limiterVars, sem,
                   wake, attempt, relArg, relRet, calls, ghostVars>>

\* acquire() and release() in full, rolling window and throttle included.
WindowLimiter(w) ==
    \/ AcquireCheck(w)
    \/ AcquireWait(w)
    \/ AcquireWake(w)
    \/ AcquireRecheck(w)
    \/ SemaphoreAcquire(w)
    \/ WaitForSlot(w)
    \/ SlotWake(w)
    \/ AcquireAppend(w)
    \/ ReleaseRecord(w)
    \/ ReleaseAdjust(w)
    \/ SemaphoreRelease(w)

\* Concurrent workers on a Llama limiter with a small quota.
NextWindow ==
    \/ Tick
    \/ \E w \in Workers :
         \/ StartCall(w)
         \/ WindowLimiter(w)
         \/ ProtocolCall(w)
         \/ ProtocolRejected(w)

InitWindow ==
    /\ kind = "llama"
    /\ max_requests_per_minute \in 1..MaxRate
    /\ adaptive_rate_limiting = TRUE
    /\ base_batch_size = 2
    /\ Constructed
    /\ NoFiltering

SpecWindow == InitWindow /\ [][NextWindow]_vars

(* ---- one thread calling acquire() and release() in a loop ------------- *)
\* The calls the loop makes.
MaxSeqCalls == 10

\* The thread of the loop.
Sequential == {1}

\* The next pass of "for i in range(...)".
StartSeqCall(w) == StartUpTo(w, MaxSeqCalls)

\* With one thread the sleep of acquire() always outlasts the recovery time,
\* so acquire() never raises and the loop has no rejection to handle.
NextThrottle ==
    \/ Tick
    \/ \E w \in Sequential :
         \/ StartSeqCall(w)
         \/ WindowLimiter(w)
         \/ ProtocolCall(w)

\* Either limiter with its default quota, or with a small one.
InitThrottle ==
    /\ kind \in {"llama", "gemini"}
    /\ max_requests_per_minute \in {default_requests_per_minute(kind), MaxRate}
    /\ adaptive_rate_limiting = TRUE
    /\ base_batch_size = 2
    /\ Constructed
    /\ NoFiltering

SpecThrottle == InitThrottle /\ [][NextThrottle]_vars

(* ---- the loop picked up in the middle of a run ------------------------ *)
\* The most errors the window holds when the loop is picked up, and the calls
\* the loop makes from there.
MaxErrors == 3
MaxMidCalls == 2

StartMidCall(w) == StartUpTo(w, MaxMidCalls)

\* Values throttle_factor takes on the way down from its initial value under
\* repeated high error rates, and on the way up under repeated low ones.
ThrottleSamples(k) ==
    IF k = "llama" THEN {328, 512, 995, 1000} ELSE {252, 420, 700, 796}

\* Call starts held by the window: just short of the data release() asks
\* for, or enough for one error in twenty to count.
WindowTotals(k) == {min_samples(k), 19}

\* A limiter that has served calls before: its window holds earlier call
\* starts and errors, failure_count stands at the errors not yet paid off by
\* a success (short of opening the circuit) and throttle_factor has moved; no
\* call is in flight.
InitMidRun ==
    /\ kind \in {"llama", "gemini"}
    /\ max_requests_per_minute \in {default_requests_per_minute(kind), MaxRate}
    /\ adaptive_rate_limiting = TRUE
    /\ base_batch_size = 2
    /\ circuit_state = "CLOSED"
    /\ last_failure_time = 0
    /\ half_open_calls = 0
    /\ \E total \in WindowTotals(kind), errors \in 0..MaxErrors :
          /\ request_times = [i \in 1..total |-> 0]
          /\ recent_errors = [i \in 1..errors |-> 0]
          /\ failure_count = Min(errors, failure_threshold - 1)
    /\ throttle_factor \in ThrottleSamples(kind)
    /\ NoCallInFlight
    /\ NoFiltering

NextMidRun ==
    \/ Tick
    \/ \E w \in Sequential :
         \/ StartMidCall(w)
         \/ WindowLimiter(w)
         \/ ProtocolCall(w)

SpecMidRun == InitMidRun /\ [][NextMidRun]_vars

(* ---- get_optimal_batch_size ------------------------------------------- *)
\* The largest optimal_batch_size configured.
MaxBase == 6

\* get_optimal_batch_size() of limiter class k with circuit_state cs,
\* throttle_factor t, adaptive_rate_limiting and the configured base size
\* (which only the Llama limiter reads).
get_optimal_batch_size(k, cs, t, adaptive, base) ==
    IF k = "llama"
    THEN IF adaptive /\ cs = "OPEN" THEN 1
         ELSE IF adaptive /\ t < 800 THEN Max(1, base \div 2)
         ELSE IF adaptive /\ t > 950 /\ cs = "CLOSED" THEN Min(4, base * 2)
         ELSE base
    ELSE IF cs = "OPEN" THEN 1
         ELSE IF t < 500 THEN 1
         ELSE IF t < 700 THEN 2
         ELSE 3

\* batch_size = rate_limiter.get_optimal_batch_size()
GetOptimalBatchSize ==
    /\ batch_size = 0
    /\ batch_size' = get_optimal_batch_size(kind, circuit_state, throttle_factor,
                                            adaptive_rate_limiting, base_batch_size)
    /\ UNCHANGED <<kind, configVars, throttleVars, dedupVars, contextVars, stageVars, now,
                   limiterVars, sem, concurrent_requests, workerVars, calls, ghostVars>>

\* Values of throttle_factor on both sides of every comparison the function
\* makes, and the ends of the range release() keeps it in.
BatchThrottles(k) ==
    IF k = "llama" THEN {300, 500, 799, 800, 950, 951, 1000}
    ELSE {200, 499, 500, 699, 700, 800}

\* The limiter in any state of its circuit and throttle, under any
\* configuration of adaptive_rate_limiting and optimal_batch_size.
InitBatch ==
    /\ kind \in {"llama", "gemini"}
    /\ max_requests_per_minute = default_requests_per_minute(kind)
    /\ adaptive_rate_limiting \in BOOLEAN
    /\ base_batch_size \in 1..MaxBase
    /\ circuit_state \in {"CLOSED", "OPEN", "HALF_OPEN"}
    /\ failure_count = 0
    /\ last_failure_time = 0
    /\ half_open_calls = 0
    /\ request_times = <<>>
    /\ recent_errors = <<>>
    /\ throttle_factor \in BatchThrottles(kind)
    /\ NoCallInFlight
    /\ NoFiltering

NextBatch == GetOptimalBatchSize

SpecBatch == InitBatch /\ [][NextBatch]_vars

(* ---- filter_similar_images -------------------------------------------- *)
\* Images are named by their position in the input list; an input list gives
\* the content of each file.  fast_prefilter_images returns its argument
\* unchanged and is not a step of its own.
NumImages == 3
threshold == 3

\* Everything but the duplicate filter.
limiterSide == <<kind, now, limiterVars, sem, concurrent_requests, workerVars, calls,
                 ghostVars, configVars, throttleVars, batch_size, contextVars,
                 stageVars>>

\* A file Image.open can decode, with the perceptual hash of its picture as
\* the set of its 1 bits, and a file it cannot decode.
Readable(h) == [ok |-> TRUE, hash |-> h]
Unreadable == [ok |-> FALSE, hash |-> {}]

Fingerprints == {{}, {1}, {1, 2}, {1, 2, 3, 4}, 1..10}
Contents == {Readable(h) : h \in Fingerprints} \cup {Unreadable}

\* A seed and images at Hamming distances 1, 2 and 10 from it.
Scenario == <<Readable({}), Readable({1}), Readable({1, 2}), Readable(1..10)>>

InputLists == UNION {[1..n -> Contents] : n \in 1..NumImages} \cup {Scenario}

Range(seq) == {seq[n] : n \in 1..Len(seq)}

\* abs(hash1 - hash2): ImageHash subtraction counts the bits that differ.
Hamming(a, b) == Cardinality((a \ b) \cup (b \ a))

hash_of(path) == image_paths[path].hash

\* The inner loop scanning without "if path2 in processed: continue".
RECURSIVE scan_claimed_too(_, _, _, _)
scan_claimed_too(items, path1, j, proc) ==
    IF j > Len(items) THEN <<>>
    ELSE IF Hamming(hash_of(path1), hash_of(items[j])) <= threshold
         THEN <<items[j]>> \o scan_claimed_too(items, path1, j + 1, proc)
         ELSE scan_claimed_too(items, path1, j + 1, proc)

\* The inner loop comparing with every member gathered so far.
RECURSIVE chain(_, _, _, _)
chain(items, members, j, proc) ==
    IF j > Len(items) THEN <<>>
    ELSE IF items[j] \in proc THEN chain(items, members, j + 1, proc)
    ELSE IF \E m \in members : Hamming(hash_of(m), hash_of(items[j])) <= threshold
         THEN <<items[j]>> \o chain(items, members \cup {items[j]}, j + 1,
                                    proc \cup {items[j]})
         ELSE chain(items, members, j + 1, proc)

scan_chained(items, path1, j, proc) == chain(items, {path1}, j, proc)

\* The inner loop giving up at the first image that is not similar.
RECURSIVE scan_until_far(_, _, _, _)
scan_until_far(items, path1, j, proc) ==
    IF j > Len(items) THEN <<>>
    ELSE IF items[j] \in proc THEN scan_until_far(items, path1, j + 1, proc)
    ELSE IF Hamming(hash_of(path1), hash_of(items[j])) <= threshold
         THEN <<items[j]>> \o scan_until_far(items, path1, j + 1, proc)
         ELSE <<>>

\* "for j in range(i + 1, len(hash_items))": the paths appended to
\* similar_group after the seed path1, scanning from position j with the
\* paths in proc already processed.
RECURSIVE scan(_, _, _, _)
scan(items, path1, j, proc) ==
    IF j > Len(items) THEN <<>>
    ELSE IF items[j] \in proc THEN scan(items, path1, j + 1, proc)
    ELSE IF Hamming(hash_of(path1), hash_of(items[j])) <= threshold
         THEN <<items[j]>> \o scan(items, path1, j + 1, proc \cup {items[j]})
         ELSE scan(items, path1, j + 1, proc)

\* The failed images forgotten.
without_failed(unique, failed) == unique

\* unique_paths.extend(failed_paths)
with_failed(unique, failed) == unique \o failed

\* as_completed() yields the future of image path: compute_image_hash has
\* returned for it, with a hash or with success = False.
HashCompleted(path) ==
    /\ fpc = "hashing"
    /\ path \in pending
    /\ pending' = pending \ {path}
    /\ IF image_paths[path].ok
       THEN hashes' = Append(hashes, path) /\ UNCHANGED failed_paths
       ELSE failed_paths' = Append(failed_paths, path) /\ UNCHANGED hashes
    /\ UNCHANGED <<limiterSide, image_paths, fpc, idx, processed, unique_paths,
                   skipped_count, groups>>

\* hash_items = list(hashes.items()), once every future was yielded
StartGrouping ==
    /\ fpc = "hashing"
    /\ pending = {}
    /\ fpc' = "grouping"
    /\ idx' = 1
    /\ UNCHANGED <<limiterSide, image_paths, pending, hashes, failed_paths, processed,
                   unique_paths, skipped_count, groups>>

\* One pass of "for i, (path1, hash1) in enumerate(hash_items)"
GroupStep ==
    /\ fpc = "grouping"
    /\ idx <= Len(hashes)
    /\ idx' = idx + 1
    /\ LET path1 == hashes[idx]
       IN  IF path1 \in processed
           THEN UNCHANGED <<processed, unique_paths, skipped_count, groups>>
           ELSE LET similar == scan(hashes, path1, idx + 1, processed \cup {path1})
                IN  /\ unique_paths' = Append(unique_paths, path1)
                    /\ processed' = processed \cup {path1} \cup Range(similar)
                    /\ skipped_count' = skipped_count + Len(similar)
                    /\ groups' = Append(groups, <<path1>> \o similar)
    /\ UNCHANGED <<limiterSide, image_paths, fpc, pending, hashes, failed_paths>>

\* unique_paths.extend(failed_paths); return unique_paths
FinishFilter ==
    /\ fpc = "grouping"
    /\ idx > Len(hashes)
    /\ unique_paths' = with_failed(unique_paths, failed_paths)
    /\ fpc' = "done"
    /\ UNCHANGED <<limiterSide, image_paths, pending, hashes, failed_paths, idx,
                   processed, skipped_count, groups>>

NextDedup ==
    \/ \E path \in DOMAIN image_paths : HashCompleted(path)
    \/ StartGrouping
    \/ GroupStep
    \/ FinishFilter

\* filter_similar_images(image_paths, threshold) has submitted every image
\* to the pool.
InitDedup ==
    /\ kind = "llama"
    /\ max_requests_per_minute = default_requests_per_minute(kind)
    /\ adaptive_rate_limiting = TRUE
    /\ base_batch_size = 2
    /\ Constructed
    /\ image_paths \in InputLists
    /\ fpc = "hashing"
    /\ pending = DOMAIN image_paths
    /\ hashes = <<>>
    /\ failed_paths = <<>>
    /\ idx = 0
    /\ processed = {}
    /\ unique_paths = <<>>
    /\ skipped_count = 0
    /\ groups = <<>>
    /\ ContextIdle
    /\ StagesIdle

SpecDedup == InitDedup /\ [][NextDedup]_vars

(* ---- filter_contextually_similar_images ------------------------------- *)
\* Photos are named by their position in analyzed_data.  The similarity is a
\* weighted sum in hundredths, kept as an exact fraction num / den.
NumRecords == 3
contextual_similarity_threshold == 70

\* Everything but the contextual filter.
scoringSide == <<kind, now, limiterVars, sem, concurrent_requests, workerVars, calls,
                 ghostVars, configVars, throttleVars, batch_size, dedupVars,
                 stageVars>>

\* One entry of analyzed_data: the fields of its 'analysis' the filter reads,
\* and enhanced, the composite_score of its 'enhanced' dict as a set that is
\* empty when the entry has none.  location is the text as its
\* whitespace-separated words; people_present may be missing from the dict.
\* Entries are named by their position: each has its own 'path'.
Photo(cat, sub, loc, mood, people, score, technical, engagement, enh) ==
    [category |-> cat, subcategory |-> sub, location |-> loc, mood |-> mood,
     people_present |-> people, composite_score |-> score,
     technical_score |-> technical, engagement_score |-> engagement,
     enhanced |-> enh]

Photos ==
    { Photo("beach", "sunset", <<"Beach">>, "happy", "0", 5, 9, 2, {}),
      Photo("beach", "sunset", <<"beach">>, "calm", "2", 7, 4, 6, {}),
      Photo("beach", "waves", <<"beach">>, "calm", "2", 7, 4, 8, {}),
      Photo("city", "street", <<"city", "street">>, "calm", "missing", 3, 5, 5, {}),
      Photo("beach", "sunset", <<"beach", "park">>, "happy", "missing", 5, 6, 9, {8}),
      Photo("beach", "sunset", <<>>, "happy", "0", 9, 2, 2, {}) }

\* A seed, a photo similar to the seed, and a photo similar to that one only.
ContextScenario ==
    << Photo("beach", "sunset", <<"Beach">>, "happy", "0", 5, 9, 2, {}),
       Photo("city", "street", <<"city", "street">>, "calm", "missing", 3, 5, 5, {}),
       Photo("beach", "sunset", <<"beach">>, "calm", "2", 7, 4, 6, {}),
       Photo("beach", "waves", <<"beach">>, "calm", "2", 7, 4, 8, {}) >>

\* The four strategies select_best_from_context_group names, and any other.
Strategies == {"highest_score", "most_unique", "best_technical", "best_engagement",
               "other"}

AnalyzedLists == UNION {[1..n -> Photos] : n \in 1..NumRecords} \cup {ContextScenario}

\* str.lower() of one word
lower(word) == IF word = "Beach" THEN "beach" ELSE word

\* set(text.lower().split())
words(text) == {lower(text[n]) : n \in 1..Len(text)}

\* len(intersection) / len(union), 0.0 when either text has no word
calculate_text_similarity(text1, text2) ==
    LET words1 == words(text1)
        words2 == words(text2)
    IN  IF words1 = {} \/ words2 = {}
        THEN [num |-> 0, den |-> 1]
        ELSE [num |-> Cardinality(words1 \cap words2),
              den |-> Cardinality(words1 \cup words2)]

\* analysis.get('people_present', '0')
people_present(photo) ==
    IF photo.people_present = "missing" THEN "0" ELSE photo.people_present

score_if(same) == IF same THEN 1 ELSE 0

calculate_contextual_similarity(photo1, photo2) ==
    LET category_score == score_if(photo1.category = photo2.category)
        subcategory_score == score_if(photo1.subcategory = photo2.subcategory)
        location_score == calculate_text_similarity(photo1.location, photo2.location)
        mood_score == score_if(photo1.mood = photo2.mood)
        people_score == score_if(people_present(photo1) = people_present(photo2))
    IN  [num |-> (category_score * 25 + subcategory_score * 15 + mood_score * 20
                  + people_score * 10) * location_score.den
                 + location_score.num * 30,
         den |-> location_score.den]

\* similarity_score >= config.contextual_similarity_threshold
meets_threshold(similarity_score) ==
    similarity_score.num >= contextual_similarity_threshold * similarity_score.den

\* The inner loop comparing photo2 with every member of current_group.
RECURSIVE context_chain(_, _, _, _)
context_chain(data, members, j, proc) ==
    IF j > Len(data) THEN <<>>
    ELSE IF j \in proc THEN context_chain(data, members, j + 1, proc)
    ELSE IF \E m \in members :
                meets_threshold(calculate_contextual_similarity(data[m], data[j]))
         THEN <<j>> \o context_chain(data, members \cup {j}, j + 1, proc \cup {j})
         ELSE context_chain(data, members, j + 1, proc)

context_scan_chained(data, i, j, proc) == context_chain(data, {i}, j, proc)

\* "for j, photo2 in enumerate(analyzed_data[i+1:], i+1)": the indices
\* appended to current_group after the seed i, scanning from index j with the
\* indices in proc already processed.
RECURSIVE context_scan(_, _, _, _)
context_scan(data, i, j, proc) ==
    IF j > Len(data) THEN <<>>
    ELSE IF j \in proc THEN context_scan(data, i, j + 1, proc)
    ELSE IF meets_threshold(calculate_contextual_similarity(data[i], data[j]))
         THEN <<j>> \o context_scan(data, i, j + 1, proc \cup {j})
         ELSE context_scan(data, i, j + 1, proc)

\* get_composite_score(photo): the score of 'enhanced' when there is one
get_composite_score(photo) ==
    IF photo.enhanced # {} THEN CHOOSE v \in photo.enhanced : TRUE
    ELSE photo.composite_score

\* The member tied for the largest key that comes last.
last_max(group, key(_)) ==
    group[CHOOSE n \in 1..Len(group) :
             /\ \A m \in 1..Len(group) : key(group[m]) <= key(group[n])
             /\ \A m \in (n + 1)..Len(group) : key(group[m]) < key(group[n])]

\* max(group, key=...): the first member of the group with the largest key
first_max(group, key(_)) ==
    group[CHOOSE n \in 1..Len(group) :
             /\ \A m \in 1..Len(group) : key(group[m]) <= key(group[n])
             /\ \A m \in 1..(n - 1) : key(group[m]) < key(group[n])]

\* sum(similarities) over the members other than candidate, from position m
\* of the group on, as an exact fraction
RECURSIVE sum_similarities(_, _, _, _)
sum_similarities(data, group, candidate, m) ==
    IF m > Len(group) THEN [num |-> 0, den |-> 1]
    ELSE LET rest == sum_similarities(data, group, candidate, m + 1)
             sim == calculate_contextual_similarity(data[candidate], data[group[m]])
         IN  IF group[m] = candidate THEN rest
             ELSE [num |-> sim.num * rest.den + rest.num * sim.den,
                   den |-> sim.den * rest.den]

\* sum(similarities) / len(similarities) if similarities else 0
avg_similarity(data, group, candidate) ==
    LET others == {m \in 1..Len(group) : group[m] # candidate}
        total == sum_similarities(data, group, candidate, 1)
    IN  IF others = {} THEN [num |-> 0, den |-> 1]
        ELSE [num |-> total.num, den |-> total.den * Cardinality(others)]

\* a < b for two fractions
less(a, b) == a.num * b.den < b.num * a.den

\* The loop of strategy 'most_unique': a candidate replaces best_photo only
\* when its average is below the lowest seen so far.  The averages are
\* floats: in a group of two both are the same number and the first member
\* stays; in a larger group two averages that are equal as fractions are
\* sums of different floats and may compare either way, so every member with
\* the lowest average is a possible result.
most_unique(data, group) ==
    IF Len(group) = 2 THEN {group[1]}
    ELSE {group[n] : n \in {k \in 1..Len(group) :
                               \A m \in 1..Len(group) :
                                  ~less(avg_similarity(data, group, group[m]),
                                        avg_similarity(data, group, group[k]))}}

\* The last of the members tied for the largest composite score.
highest_score_last(data, group) ==
    last_max(group, LAMBDA p : get_composite_score(data[p]))

\* max(group, key=get_composite_score)
highest_score(data, group) ==
    first_max(group, LAMBDA p : get_composite_score(data[p]))

\* The photos select_best_from_context_group(group, config) can return.
select_best_from_context_group(data, group, strategy) ==
    CASE strategy = "highest_score" -> {highest_score(data, group)}
      [] strategy = "most_unique" -> most_unique(data, group)
      [] strategy = "best_technical" ->
            {first_max(group, LAMBDA p : data[p].technical_score)}
      [] strategy = "best_engagement" ->
            {first_max(group, LAMBDA p : data[p].engagement_score)}
      [] OTHER -> {highest_score(data, group)}

\* Every photo of every group kept.
RECURSIVE keep_whole_groups(_, _, _)
keep_whole_groups(data, cgroups, strategy) ==
    IF cgroups = <<>> THEN {<<>>}
    ELSE {Head(cgroups) \o rest :
             rest \in keep_whole_groups(data, Tail(cgroups), strategy)}

\* "for group in context_groups": the lists filtered_photos can end as, one
\* photo of each group
RECURSIVE select_from_groups(_, _, _)
select_from_groups(data, cgroups, strategy) ==
    IF cgroups = <<>> THEN {<<>>}
    ELSE LET group == Head(cgroups)
             best == IF Len(group) = 1 THEN {group[1]}
                     ELSE select_best_from_context_group(data, group, strategy)
         IN  {<<best_photo>> \o rest :
                 best_photo \in best,
                 rest \in select_from_groups(data, Tail(cgroups), strategy)}

\* "if not config.enable_contextual_filtering: return analyzed_data", or the
\* grouping begins.
EnterContextFilter ==
    /\ cpc = "called"
    /\ IF enable_contextual_filtering
       THEN /\ cpc' = "grouping"
            /\ ci' = 1
            /\ UNCHANGED filtered_photos
       ELSE /\ cpc' = "done"
            /\ filtered_photos' = [n \in 1..Len(analyzed_data) |-> n]
            /\ UNCHANGED ci
    /\ UNCHANGED <<scoringSide, contextConfig, analyzed_data,
                   processed_indices, context_groups>>

\* One pass of "for i, photo1 in enumerate(analyzed_data)"
ContextGroupStep ==
    /\ cpc = "grouping"
    /\ ci <= Len(analyzed_data)
    /\ ci' = ci + 1
    /\ IF ci \in processed_indices
       THEN UNCHANGED <<processed_indices, context_groups>>
       ELSE LET similar == context_scan(analyzed_data, ci, ci + 1,
                                        processed_indices \cup {ci})
            IN  /\ processed_indices' = processed_indices \cup {ci} \cup Range(similar)
                /\ context_groups' = Append(context_groups, <<ci>> \o similar)
    /\ UNCHANGED <<scoringSide, contextConfig, analyzed_data, cpc,
                   filtered_photos>>

\* The selection loop over context_groups, and the return
SelectFromGroups ==
    /\ cpc = "grouping"
    /\ ci > Len(analyzed_data)
    /\ filtered_photos' \in select_from_groups(analyzed_data, context_groups,
                                               contextual_selection_strategy)
    /\ cpc' = "done"
    /\ UNCHANGED <<scoringSide, contextConfig, analyzed_data, ci,
                   processed_indices, context_groups>>

NextContext ==
    \/ EnterContextFilter
    \/ ContextGroupStep
    \/ SelectFromGroups

\* filter_contextually_similar_images(analyzed_data, config) has been called.
InitContext ==
    /\ kind = "llama"
    /\ max_requests_per_minute = default_requests_per_minute(kind)
    /\ adaptive_rate_limiting = TRUE
    /\ base_batch_size = 2
    /\ Constructed
    /\ DedupIdle
    /\ StagesIdle
    /\ enable_contextual_filtering \in BOOLEAN
    /\ contextual_selection_strategy \in Strategies
    /\ analyzed_data \in AnalyzedLists
    /\ cpc = "called"
    /\ ci = 0
    /\ processed_indices = {}
    /\ context_groups = <<>>
    /\ filtered_photos = <<>>

SpecContext == InitContext /\ [][NextContext]_vars

(* ---- the scoring response: sub-scores, composite_score, instagram_tier -- *)
\* The block that analyze_with_llama, analyze_with_gemini,
\* analyze_batch_with_gemini (for each analysis of the batch) and
\* analyze_single_image_gemini_direct run on the dict parsed from the model's
\* JSON.  Scores are in hundredths and the weights too, so the weighted sum
\* is an integer number of ten-thousandths.  The code computes it in floats:
\* the float sum can differ from the exact sum by a rounding error far
\* smaller than a ten-thousandth, which decides a comparison or a rounding
\* only when the exact sum sits on the breakpoint or half-way between two
\* hundredths; float_error is the sign of that error.

\* Everything but the stages around the limiter and the filters.
pipelineCore == <<kind, now, limiterVars, sem, concurrent_requests, workerVars, calls,
                  ghostVars, configVars, throttleVars, batch_size, dedupVars,
                  contextVars>>

Scorers == {"analyze_with_llama", "analyze_with_gemini", "analyze_batch_with_gemini",
            "analyze_single_image_gemini_direct"}

SubScores == {"technical_score", "visual_appeal", "engagement_score", "uniqueness",
              "story_potential"}

required_fields == {"technical_score", "visual_appeal", "engagement_score",
                    "uniqueness"}

weights == [technical_score |-> 15, visual_appeal |-> 25, engagement_score |-> 30,
            uniqueness |-> 20, story_potential |-> 10]

\* A key of the parsed dict: absent, present with JSON null, or a number.
Missing == [present |-> FALSE, numeric |-> FALSE, value |-> 0]
Null == [present |-> TRUE, numeric |-> FALSE, value |-> 0]
Number(v) == [present |-> TRUE, numeric |-> TRUE, value |-> v]

\* 7, 8.48, 8.5, 9, 10 and 15
ScoreValues == {700, 848, 850, 900, 1000, 1500}
FieldValues == {Missing, Null} \cup {Number(v) : v \in ScoreValues}
Responses == [SubScores -> FieldValues]

FloatErrors == {-1, 0, 1}

default_score == 500

\* "if field not in analysis: analysis[field] = 5.0" over required_fields;
\* analyze_single_image_gemini_direct has no such loop.
fill_missing(fn, a) ==
    IF fn = "analyze_single_image_gemini_direct" THEN a
    ELSE [f \in SubScores |->
             IF f \in required_fields /\ ~a[f].present THEN Number(default_score)
             ELSE a[f]]

\* A missing sub-score counted as 0.
get_or_zero(a, field) == IF a[field].present THEN a[field].value ELSE 0

\* analysis.get(field, 5.0)
get_or_default(a, field) == IF a[field].present THEN a[field].value ELSE default_score

\* None * weight raises TypeError
raises_type_error(a) == \E f \in SubScores : a[f].present /\ ~a[f].numeric

\* The weighted sum, exactly.
composite_of(a) ==
    get_or_default(a, "technical_score") * weights.technical_score
    + get_or_default(a, "visual_appeal") * weights.visual_appeal
    + get_or_default(a, "engagement_score") * weights.engagement_score
    + get_or_default(a, "uniqueness") * weights.uniqueness
    + get_or_default(a, "story_potential") * weights.story_potential

\* composite_score >= bound, for the float whose exact value is c and a bound
\* in hundredths
at_least(c, bound, err) == c > bound * 100 \/ (c = bound * 100 /\ err >= 0)

\* round(composite_score, 2), in hundredths
round2(c, err) ==
    LET q == c \div 100
        r == c % 100
    IN  IF r < 50 THEN q
        ELSE IF r > 50 THEN q + 1
        ELSE IF err < 0 THEN q
        ELSE IF err > 0 THEN q + 1
        ELSE IF q % 2 = 0 THEN q ELSE q + 1

\* The if / elif chain that determines the tier
tier_of(c, err) ==
    IF at_least(c, 850, err) THEN "premium"
    ELSE IF at_least(c, 750, err) THEN "excellent"
    ELSE IF at_least(c, 600, err) THEN "good"
    ELSE IF at_least(c, 400, err) THEN "average"
    ELSE "poor"

\* The dict the function returns
score_response(fn, a, err) ==
    LET filled == fill_missing(fn, a)
        composite_score == composite_of(filled)
        tier == tier_of(composite_score, err)
    IN  [scores |-> filled,
         composite_score |-> round2(composite_score, err),
         instagram_tier |-> tier,
         instagram_worthy |-> \/ tier \in {"premium", "excellent"}
                              \/ at_least(composite_score, 700, err)]

\* From "analysis = json.loads(content)" to the return: the record, or None
\* when the arithmetic raises and the except branch returns.
ScoreResponse ==
    /\ spc = "parsed"
    /\ IF raises_type_error(fill_missing(scorer, response))
       THEN /\ spc' = "dropped"
            /\ UNCHANGED analysis
       ELSE /\ spc' = "scored"
            /\ \E err \in FloatErrors :
                  analysis' = score_response(scorer, response, err)
    /\ UNCHANGED <<pipelineCore, retryVars, requestVars, batchingVars, scorer, response>>

NextScore == ScoreResponse

\* One of the scoring functions has parsed the JSON of a response.
InitScore ==
    /\ kind = "llama"
    /\ max_requests_per_minute = default_requests_per_minute(kind)
    /\ adaptive_rate_limiting = TRUE
    /\ base_batch_size = 2
    /\ Constructed
    /\ DedupIdle
    /\ ContextIdle
    /\ RetryIdle
    /\ RequestIdle
    /\ BatchingIdle
    /\ scorer \in Scorers
    /\ response \in Responses
    /\ spc = "parsed"
    /\ analysis = <<>>

SpecScore == InitScore /\ [][NextScore]_vars

(* ---- analyze_with_llama: the retry loop around requests.post ----------- *)
\* The same function as LlamaAttempt models, with the sleep between two
\* attempts as a step of its own and each attempt's outcome told apart.

\* What requests.post can come to: a good status, status 500, another error
\* status (raise_for_status raises), or a timeout or connection error.
Outcomes == {"ok", "500", "error_status", "timeout"}

\* Every wait between attempts the same.
constant_wait(a) == 2

\* wait_time = (attempt + 1) * 2
backoff_wait(a) == (a + 1) * 2

\* One pass of "for attempt in range(max_retries)" up to its sleep, break or
\* raise.  Status 500 before the last pass sleeps and continues; any other
\* failure, and status 500 on the last pass through raise_for_status, enters
\* "except RequestException", which sleeps and continues before the last
\* pass and re-raises on it, into "except Exception": release(success=False),
\* return None.
LlamaTry(w) ==
    /\ kind = "llama"
    /\ pc[w] = "holding"
    /\ attempts_made' = [attempts_made EXCEPT ![w] = attempts_made[w] + 1]
    /\ \E outcome \in Outcomes :
         LET before == IF attempts_made[w] = 0 THEN <<>> ELSE tries[w]
             slept == IF attempts_made[w] = 0 THEN <<>> ELSE backoff[w]
         IN  /\ tries' = [tries EXCEPT ![w] = Append(before, outcome)]
             /\ IF outcome = "ok"
                THEN /\ pc' = [pc EXCEPT ![w] = "json"]
                     /\ backoff' = [backoff EXCEPT ![w] = slept]
                     /\ UNCHANGED <<relArg, relRet, releases>>
                ELSE IF attempt[w] < max_retries - 1
                     THEN /\ pc' = [pc EXCEPT ![w] = "backoff"]
                          /\ backoff' = [backoff EXCEPT
                                           ![w] = Append(slept, backoff_wait(attempt[w]))]
                          /\ UNCHANGED <<relArg, relRet, releases>>
                     ELSE /\ CallRelease(w, FALSE, "idle")
                          /\ backoff' = [backoff EXCEPT ![w] = slept]
    /\ UNCHANGED <<kind, configVars, throttleVars, batch_size, dedupVars, contextVars,
                   scoreVars, requestVars, batchingVars, now, limiterVars, sem,
                   concurrent_requests, wake, attempt,
                   calls, acquired, rejected, gate, failSince, recorded, failRun, hoSucc,
                   lastFailAt>>

\* time.sleep(wait_time) returns; continue
LlamaBackoffWake(w) ==
    /\ kind = "llama"
    /\ pc[w] = "backoff"
    /\ pc' = [pc EXCEPT ![w] = "holding"]
    /\ attempt' = [attempt EXCEPT ![w] = attempt[w] + 1]
    /\ UNCHANGED <<kind, outerVars, now, limiterVars, sem, concurrent_requests, wake,
                   relArg, relRet, calls, ghostVars>>

\* analyze_with_llama called for one image after another.
NextRetry ==
    \/ Tick
    \/ \E w \in Sequential :
         \/ Limiter(w)
         \/ LlamaTry(w)
         \/ LlamaBackoffWake(w)
         \/ LlamaResponse(w)
         \/ LlamaParse(w)

InitRetry == Init /\ kind = "llama"

SpecRetry == InitRetry /\ [][NextRetry]_vars

(* ---- make_rate_limited_request ---------------------------------------- *)
\* Delays are in seconds; random.uniform is drawn from the ends and the
\* middle of its interval.
MaxAiRetries == 3

\* What one pass of the loop can come to: the JSON of a good response, an
\* HTTPError with status 429, with status 503 or with another status, or any
\* other exception (timeout, connection error, undecodable body).
RequestOutcomes == {"ok", "429", "503", "other_status", "exception"}

\* 2 ** attempt
RECURSIVE pow2(_)
pow2(n) == IF n = 0 THEN 1 ELSE 2 * pow2(n - 1)

\* base_delay = 3.0 if request_type == "batch" else 1.0
base_delay(rt) == IF rt = "batch" THEN 3 ELSE 1

\* random.uniform(0, 2) after a 429, random.uniform(2, 5) after a 503,
\* nothing after another exception
jitter(outcome) ==
    IF outcome = "429" THEN {0, 1, 2}
    ELSE IF outcome = "503" THEN {2, 3, 5}
    ELSE {0}

\* The statuses and exceptions the function retries.
retried(outcome) == outcome \in {"429", "503", "exception"}

\* One pass of "for attempt in range(max_retries + 1)": return, sleep and
\* continue, or raise.
RequestAttempt ==
    /\ rpc = "trying"
    /\ \E outcome \in RequestOutcomes :
         /\ rtries' = Append(rtries, outcome)
         /\ IF outcome = "ok"
            THEN rpc' = "returned" /\ UNCHANGED delays
            ELSE IF retried(outcome) /\ rattempt < ai_max_retries
                 THEN /\ rpc' = "sleeping"
                      /\ \E j \in jitter(outcome) :
                            delays' = Append(delays,
                                             base_delay(request_type) * pow2(rattempt) + j)
                 ELSE rpc' = "raised" /\ UNCHANGED delays
    /\ UNCHANGED <<pipelineCore, scoreVars, retryVars, batchingVars, request_type,
                   ai_max_retries,
                   rattempt>>

\* time.sleep(delay) returns; continue
RequestWake ==
    /\ rpc = "sleeping"
    /\ rpc' = "trying"
    /\ rattempt' = rattempt + 1
    /\ UNCHANGED <<pipelineCore, scoreVars, retryVars, batchingVars, request_type,
                   ai_max_retries,
                   rtries, delays>>

NextRequest ==
    \/ RequestAttempt
    \/ RequestWake

\* make_rate_limited_request(url, payload, headers, config, request_type)
\* has been called.
InitRequest ==
    /\ kind = "gemini"
    /\ max_requests_per_minute = default_requests_per_minute(kind)
    /\ adaptive_rate_limiting = TRUE
    /\ base_batch_size = 2
    /\ Constructed
    /\ DedupIdle
    /\ ContextIdle
    /\ ScoringIdle
    /\ RetryIdle
    /\ BatchingIdle
    /\ request_type \in {"batch", "individual"}
    /\ ai_max_retries \in 0..MaxAiRetries
    /\ rattempt = 0
    /\ rpc = "trying"
    /\ rtries = <<>>
    /\ delays = <<>>

SpecRequest == InitRequest /\ [][NextRequest]_vars

(* ---- analyze_images_gemini_optimized ------------------------------------ *)
\* image_paths[i:i + size] for i in range(0, n, size), each image named by
\* its index 1..n.
slices(n, size) ==
    [b \in 1..((n + size - 1) \div size) |->
        [k \in 1..Min(size, n - (b - 1) * size) |-> (b - 1) * size + k]]

\* rate_limiter.get_optimal_batch_size() of the limiter as it is now.
optimal_now ==
    get_optimal_batch_size(kind, circuit_state, throttle_factor, adaptive_rate_limiting,
                           base_batch_size)

\* batch_size = rate_limiter.get_optimal_batch_size()
\* batches = [image_paths[i:i + batch_size] for i in range(...)]
PlanBatches ==
    /\ opc = "start"
    /\ batch_size' = optimal_now
    /\ batches' = slices(num_paths, optimal_now)
    /\ batch_idx' = 1
    /\ opc' = "loop"
    /\ UNCHANGED <<kind, configVars, throttleVars, dedupVars, contextVars, scoreVars,
                   retryVars, requestVars, fallbackVars, laterVars, num_paths, target, handed, now, limiterVars,
                   sem, concurrent_requests, workerVars, calls, ghostVars>>

\* for batch_idx, batch in enumerate(batches): the batch goes to the executor,
\* or the loop is over.
StartBatch ==
    /\ opc = "loop"
    /\ IF batch_idx <= Len(batches)
       THEN /\ opc' = "running"
            /\ target' = calls + Len(batches[batch_idx])
            /\ handed' = Append(handed, [batch |-> batches[batch_idx],
                                         optimal |-> optimal_now])
       ELSE /\ opc' = "done"
            /\ UNCHANGED <<target, handed>>
    /\ UNCHANGED <<kind, configVars, throttleVars, batch_size, dedupVars, contextVars,
                   scoreVars, retryVars, requestVars, fallbackVars, laterVars, num_paths, batches, batch_idx, now,
                   limiterVars, sem, concurrent_requests, workerVars, calls, ghostVars>>

\* executor.submit(analyze_single_image_gemini_with_limiter, path, ...): a
\* thread of the pool takes the next image of the batch.
SubmitImage(w) ==
    /\ opc = "running"
    /\ StartUpTo(w, target)

\* Every future of the batch has its result; the delay between batches; then
\* new_batch_size = rate_limiter.get_optimal_batch_size() is stored in
\* batch_size, and the loop goes to the next element of batches.
EndBatch ==
    /\ opc = "running"
    /\ calls = target
    /\ \A w \in Workers : pc[w] = "idle"
    /\ batch_size' = optimal_now
    /\ batch_idx' = batch_idx + 1
    /\ opc' = "loop"
    /\ UNCHANGED <<kind, configVars, throttleVars, dedupVars, contextVars, scoreVars,
                   retryVars, requestVars, fallbackVars, laterVars, num_paths, batches, target, handed, now,
                   limiterVars, sem, concurrent_requests, workerVars, calls, ghostVars>>

NextOptimized ==
    \/ Tick
    \/ PlanBatches
    \/ StartBatch
    \/ EndBatch
    \/ \E w \in Workers :
         \/ SubmitImage(w)
         \/ AcquireCheck(w)
         \/ AcquireWait(w)
         \/ AcquireWake(w)
         \/ AcquireRecheck(w)
         \/ SemaphoreAcquire(w)
         \/ AcquireRecord(w)
         \/ ReleaseRecord(w)
         \/ ReleaseDecrement(w)
         \/ SemaphoreRelease(w)
         \/ GeminiRejected(w)
         \/ GeminiDirect(w)

\* analyze_images_gemini_optimized called with a fresh GeminiRateLimiter and a
\* list of up to MaxCalls images.
InitOptimized ==
    /\ kind = "gemini"
    /\ max_requests_per_minute = default_requests_per_minute(kind)
    /\ adaptive_rate_limiting = TRUE
    /\ base_batch_size = 2
    /\ Constructed
    /\ DedupIdle
    /\ ContextIdle
    /\ ScoringIdle
    /\ RetryIdle
    /\ RequestIdle
    /\ FallbackIdle
    /\ LaterIdle
    /\ opc = "start"
    /\ num_paths \in 0..MaxCalls
    /\ batches = <<>>
    /\ batch_idx = 0
    /\ target = 0
    /\ handed = <<>>

SpecOptimized == InitOptimized /\ [][NextOptimized]_vars

(* ---- analyze_batch_with_gemini and its fallback -------------------------- *)
\* The largest number of images in one batch request.
NumBatchImages == 2

\* "503" in str(e) or "Service Unavailable" in str(e), for the error the
\* request ended with. An HTTPError carries its status in its text; the text
\* of any other exception (a proxy error, say) may or may not hold "503".
mentions_503(outcome) ==
    CASE outcome = "503" -> {TRUE}
      [] outcome = "exception" -> BOOLEAN
      [] OTHER -> {FALSE}

\* make_rate_limited_request(..., "batch") returned: one record for each of
\* analyses[:len(valid_paths)]; none if the text is not JSON or there are no
\* candidates.
BatchResponse ==
    /\ bpc = "request"
    /\ rpc = "returned"
    /\ \E count \in 0..valid_paths : results' = [i \in 1..count |-> i]
    /\ bpc' = "returned"
    /\ UNCHANGED <<pipelineCore, scoreVars, retryVars, requestVars, driverVars, laterVars,
                   valid_paths, batch_error, fi, individual>>

\* except Exception as e: fall back if the text of e mentions 503, else
\* return []
BatchError ==
    /\ bpc = "request"
    /\ rpc = "raised"
    /\ batch_error' = rtries[Len(rtries)]
    /\ \E falls_back \in mentions_503(rtries[Len(rtries)]) :
         IF falls_back
         THEN /\ bpc' = "fallback"
              /\ fi' = 1
         ELSE /\ bpc' = "returned"
              /\ UNCHANGED fi
    /\ UNCHANGED <<pipelineCore, scoreVars, retryVars, requestVars, driverVars, laterVars,
                   valid_paths, individual, results>>

\* for i, path in enumerate(image_paths): after time.sleep(rate_limit_delay),
\* analyze_with_gemini(path, config) makes its own request.
FallbackCall ==
    /\ bpc = "fallback"
    /\ fi <= valid_paths
    /\ bpc' = "individual"
    /\ request_type' = "individual"
    /\ rattempt' = 0
    /\ rpc' = "trying"
    /\ rtries' = <<>>
    /\ delays' = <<>>
    /\ UNCHANGED <<pipelineCore, scoreVars, retryVars, driverVars, laterVars, ai_max_retries,
                   valid_paths, batch_error, fi, individual, results>>

\* analyze_with_gemini returned: the analysis, or None after an error or a
\* response it cannot parse. if analysis: results.append(...)
FallbackResult ==
    /\ bpc = "individual"
    /\ rpc \in {"returned", "raised"}
    /\ \E parsed \in BOOLEAN :
         LET ok == rpc = "returned" /\ parsed
         IN  /\ individual' = [individual EXCEPT ![fi] = IF ok THEN "ok" ELSE "failed"]
             /\ results' = IF ok THEN Append(results, fi) ELSE results
    /\ fi' = fi + 1
    /\ bpc' = "fallback"
    /\ UNCHANGED <<pipelineCore, scoreVars, retryVars, requestVars, driverVars, laterVars,
                   valid_paths, batch_error>>

\* return results
FallbackReturn ==
    /\ bpc = "fallback"
    /\ fi > valid_paths
    /\ bpc' = "returned"
    /\ UNCHANGED <<pipelineCore, scoreVars, retryVars, requestVars, driverVars, laterVars,
                   valid_paths, batch_error, fi, individual, results>>

NextFallback ==
    \/ RequestAttempt
    \/ RequestWake
    \/ BatchResponse
    \/ BatchError
    \/ FallbackCall
    \/ FallbackResult
    \/ FallbackReturn

\* analyze_batch_with_gemini has encoded its images and makes the request.
InitFallback ==
    /\ kind = "gemini"
    /\ max_requests_per_minute = default_requests_per_minute(kind)
    /\ adaptive_rate_limiting = TRUE
    /\ base_batch_size = 2
    /\ Constructed
    /\ DedupIdle
    /\ ContextIdle
    /\ ScoringIdle
    /\ RetryIdle
    /\ DriverIdle
    /\ LaterIdle
    /\ request_type = "batch"
    /\ ai_max_retries \in 0..MaxAiRetries
    /\ rattempt = 0
    /\ rpc = "trying"
    /\ rtries = <<>>
    /\ delays = <<>>
    /\ bpc = "request"
    /\ valid_paths \in 1..NumBatchImages
    /\ batch_error = "none"
    /\ fi = 0
    /\ individual = [i \in 1..valid_paths |-> "none"]
    /\ results = <<>>

SpecFallback == InitFallback /\ [][NextFallback]_vars

(* ---- analyze_images_llama_optimized -------------------------------------- *)
\* The longest list of images, and the largest config.ai_parallel_workers.
MaxLlamaImages == 4
MaxParallel == 2

\* How future.result(timeout=120) ends for one image: the record, None, an
\* exception of the call, or TimeoutError while the call goes on and returns
\* a record to nobody.
FutureOutcomes == {"record", "none", "raised", "late_record"}

\* One throttle_factor in each range LlamaRateLimiter.get_optimal_batch_size
\* tells apart: below 0.8, up to 0.95, above 0.95.
ThrottleRanges == {799, 800, 951}

\* current_batch_size after the adjustment for an open circuit or failures.
current_batch_size(cs, failures, optimal) ==
    IF cs = "OPEN" \/ failures > 3 THEN 1
    ELSE IF failures > 0 THEN Max(1, optimal \div 2)
    ELSE optimal

\* max_workers after the same adjustment; it is never raised again.
adjusted_max_workers(cs, failures, workers) ==
    IF cs = "OPEN" \/ failures > 3 THEN 1
    ELSE IF failures > 0 THEN Min(workers, 2)
    ELSE workers

\* batch_end = min(i + current_batch_size * max_workers, len(image_paths))
batch_end(i, size, workers, n) == Min(i + size * workers, n)

\* The slice taken from the start of the list.
batch_slice_from_start(i, end) == [k \in 1..end |-> k]

\* image_paths[i:batch_end], each image named by its index from 1.
batch_slice(i, end) == [k \in 1..(end - i) |-> i + k]

\* Everything the function neither reads nor writes, but for the two limiter
\* fields its workers change.
llamaDriverFrame == <<kind, now, failure_count, last_failure_time, half_open_calls, sem,
                      concurrent_requests, workerVars, calls, ghostVars, configVars,
                      request_times, recent_errors, batch_size, dedupVars, contextVars,
                      scoreVars, retryVars, requestVars, driverVars, fallbackVars,
                      lockVars, singletonVars, cacheVars, runnerVars>>

\* max_workers = min(config.ai_parallel_workers, 15); i = 0
LlamaStart ==
    /\ lpc = "start"
    /\ lmax_workers' = Min(ai_parallel_workers, 15)
    /\ li' = 0
    /\ lpc' = "loop"
    /\ UNCHANGED <<llamaDriverFrame, circuit_state, throttle_factor, limages,
                   ai_parallel_workers, consecutive_failures, batch_paths, lj,
                   batch_results, successful_analyses, llama_results, submitted,
                   future_outcome>>

\* while i < len(image_paths): size the batch and submit its images; or
\* return results.
LlamaBatch ==
    /\ lpc = "loop"
    /\ IF li < limages
       THEN LET optimal == get_optimal_batch_size(kind, circuit_state, throttle_factor,
                                                  adaptive_rate_limiting, base_batch_size)
                size == current_batch_size(circuit_state, consecutive_failures, optimal)
                workers == adjusted_max_workers(circuit_state, consecutive_failures,
                                                lmax_workers)
                paths == batch_slice(li, batch_end(li, size, workers, limages))
            IN  /\ lmax_workers' = workers
                /\ batch_paths' = paths
                /\ submitted' = [img \in 1..limages |->
                                    submitted[img] + Cardinality({k \in 1..Len(paths) :
                                                                    paths[k] = img})]
                /\ batch_results' = <<>>
                /\ lj' = 1
                /\ lpc' = "collect"
       ELSE /\ lpc' = "done"
            /\ UNCHANGED <<lmax_workers, batch_paths, submitted, batch_results, lj>>
    /\ UNCHANGED <<llamaDriverFrame, circuit_state, throttle_factor, limages,
                   ai_parallel_workers, li, consecutive_failures, successful_analyses,
                   llama_results, future_outcome>>

\* for future, path in futures: result = future.result(timeout=120). By then
\* the call of that image has left the limiter in any state of its circuit
\* and throttle.
LlamaCollect ==
    /\ lpc = "collect"
    /\ lj <= Len(batch_paths)
    /\ \E outcome \in FutureOutcomes :
         /\ future_outcome' = [future_outcome EXCEPT ![batch_paths[lj]] = outcome]
         /\ IF outcome = "record"
            THEN /\ batch_results' = Append(batch_results, batch_paths[lj])
                 /\ successful_analyses' = successful_analyses + 1
                 /\ consecutive_failures' = 0
            ELSE /\ consecutive_failures' = consecutive_failures + 1
                 /\ UNCHANGED <<batch_results, successful_analyses>>
    /\ circuit_state' \in {"CLOSED", "OPEN", "HALF_OPEN"}
    /\ throttle_factor' \in ThrottleRanges
    /\ lj' = lj + 1
    /\ UNCHANGED <<llamaDriverFrame, lpc, limages, ai_parallel_workers, li, lmax_workers,
                   batch_paths, llama_results, submitted>>

\* results.extend(batch_results); i = batch_end
LlamaBatchEnd ==
    /\ lpc = "collect"
    /\ lj > Len(batch_paths)
    /\ llama_results' = llama_results \o batch_results
    /\ li' = li + Len(batch_paths)
    /\ lpc' = "loop"
    /\ UNCHANGED <<llamaDriverFrame, circuit_state, throttle_factor, limages,
                   ai_parallel_workers, lmax_workers, consecutive_failures, batch_paths,
                   lj, batch_results, successful_analyses, submitted, future_outcome>>

NextLlamaDriver ==
    \/ LlamaStart
    \/ LlamaBatch
    \/ LlamaCollect
    \/ LlamaBatchEnd

\* analyze_images_llama_optimized called with up to MaxLlamaImages images.
InitLlamaDriver ==
    /\ kind = "llama"
    /\ max_requests_per_minute = default_requests_per_minute(kind)
    /\ adaptive_rate_limiting = TRUE
    /\ base_batch_size \in 1..2
    /\ Constructed
    /\ DedupIdle
    /\ ContextIdle
    /\ ScoringIdle
    /\ RetryIdle
    /\ RequestIdle
    /\ DriverIdle
    /\ FallbackIdle
    /\ LockIdle
    /\ SingletonIdle
    /\ CacheIdle
    /\ RunnerIdle
    /\ lpc = "start"
    /\ limages \in 0..MaxLlamaImages
    /\ ai_parallel_workers \in 1..MaxParallel
    /\ li = 0
    /\ lmax_workers = 0
    /\ consecutive_failures = 0
    /\ batch_paths = <<>>
    /\ lj = 0
    /\ batch_results = <<>>
    /\ successful_analyses = 0
    /\ llama_results = <<>>
    /\ submitted = [img \in 1..limages |-> 0]
    /\ future_outcome = [img \in 1..limages |-> "pending"]

\* The function runs on: the pool's threads and the loop are never suspended
\* for ever.
SpecLlamaDriver == InitLlamaDriver /\ [][NextLlamaDriver]_vars /\ WF_vars(NextLlamaDriver)

(* ---- the limiter's lock -------------------------------------------------- *)
\* The methods of both limiter classes that the pipeline calls.
Methods == {"acquire", "release", "get_optimal_batch_size", "is_circuit_open",
            "record_success", "record_failure"}

\* The body of is_circuit_open(), of record_success() / record_failure(), and
\* of wait_for_slot(): each a single "with self.lock:" block.
circuit_block == [locked |-> TRUE, optional |-> FALSE,
                  fields |-> {"circuit_state", "last_failure_time", "half_open_calls"}]
record_block == [locked |-> TRUE, optional |-> FALSE,
                 fields |-> {"circuit_state", "failure_count", "last_failure_time",
                             "half_open_calls"}]
slot_block == [locked |-> TRUE, optional |-> FALSE,
               fields |-> {"request_times", "throttle_factor"}]

\* Each method as the sequence of its pieces of code that touch the limiter's
\* fields: whether the piece is inside "with self.lock:", whether a branch
\* can skip it, and the fields it reads or writes. The two classes place
\* their locks alike.
Segments(method) ==
    CASE method = "acquire" ->
           << circuit_block,
              \* wait_time = self.recovery_timeout - (time.time() - self.last_failure_time)
              [locked |-> FALSE, optional |-> TRUE, fields |-> {"last_failure_time"}],
              [circuit_block EXCEPT !.optional = TRUE],
              \* if self.failure_count > 2:   (Gemini: > 0)
              [locked |-> FALSE, optional |-> FALSE, fields |-> {"failure_count"}],
              slot_block,
              [locked |-> TRUE, optional |-> FALSE,
               fields |-> {"request_times", "concurrent_requests"}] >>
      [] method = "release" ->
           << record_block,
              [locked |-> TRUE, optional |-> FALSE,
               fields |-> {"concurrent_requests", "request_times", "throttle_factor"}] >>
      [] method = "get_optimal_batch_size" ->
           << [locked |-> FALSE, optional |-> FALSE,
               fields |-> {"circuit_state", "throttle_factor"}] >>
      [] method = "is_circuit_open" -> << circuit_block >>
      [] method = "record_success" -> << record_block >>
      [] method = "record_failure" -> << record_block >>

lockFrame == <<pipelineCore, scoreVars, retryVars, requestVars, driverVars, fallbackVars,
               llamaDriverVars, singletonVars, cacheVars, runnerVars>>

\* The segment thread w stands at.
SegmentOf(w) == Segments(mpc[w].method)[mpc[w].segment]

\* Thread w moves past its segment: to the next one, or out of the method.
Advance(w) ==
    IF mpc[w].segment < Len(Segments(mpc[w].method))
    THEN [mpc EXCEPT ![w] = [method |-> mpc[w].method, segment |-> mpc[w].segment + 1,
                             phase |-> "before"]]
    ELSE [mpc EXCEPT ![w] = [method |-> "none", segment |-> 0, phase |-> "out"]]

\* A thread calls a method of the limiter.
CallMethod(w) ==
    /\ mpc[w].phase = "out"
    /\ \E method \in Methods :
         mpc' = [mpc EXCEPT ![w] = [method |-> method, segment |-> 1, phase |-> "before"]]
    /\ UNCHANGED <<lockFrame, lock, accessed>>

\* with self.lock:  (entered when the lock is free)
EnterLock(w) ==
    /\ mpc[w].phase = "before"
    /\ SegmentOf(w).locked
    /\ lock = 0
    /\ lock' = w
    /\ mpc' = [mpc EXCEPT ![w].phase = "inside"]
    /\ UNCHANGED <<lockFrame, accessed>>

\* The fields of the segment are read or written, the lock held or not.
Access(w) ==
    /\ \/ mpc[w].phase = "inside"
       \/ mpc[w].phase = "before" /\ ~SegmentOf(w).locked
    /\ accessed' = accessed \cup
                     {[method |-> mpc[w].method, field |-> f, held |-> lock = w] :
                        f \in SegmentOf(w).fields}
    /\ IF lock = w
       THEN mpc' = [mpc EXCEPT ![w].phase = "after"]
       ELSE mpc' = Advance(w)
    /\ UNCHANGED <<lockFrame, lock>>

\* The end of the "with self.lock:" block.
LeaveLock(w) ==
    /\ mpc[w].phase = "after"
    /\ lock = w
    /\ lock' = 0
    /\ mpc' = Advance(w)
    /\ UNCHANGED <<lockFrame, accessed>>

\* A branch of the method passes over the segment.
SkipSegment(w) ==
    /\ mpc[w].phase = "before"
    /\ SegmentOf(w).optional
    /\ mpc' = Advance(w)
    /\ UNCHANGED <<lockFrame, lock, accessed>>

NextLock ==
    \E w \in Workers :
       \/ CallMethod(w)
       \/ EnterLock(w)
       \/ Access(w)
       \/ LeaveLock(w)
       \/ SkipSegment(w)

\* A limiter just constructed, with no thread inside it.
InitLock ==
    /\ kind \in {"llama", "gemini"}
    /\ max_requests_per_minute = default_requests_per_minute(kind)
    /\ adaptive_rate_limiting = TRUE
    /\ base_batch_size = 2
    /\ Constructed
    /\ NoFiltering

SpecLock == InitLock /\ [][NextLock]_vars

(* ---- the module-level _llama_rate_limiter -------------------------------- *)
\* The threads of the executor in analyze_images_parallel, and the images
\* each of them scores.
NumThreads == 2
MaxImagesPerThread == 2

Threads == 1..NumThreads

singletonFrame == <<pipelineCore, scoreVars, retryVars, requestVars, driverVars,
                    fallbackVars, llamaDriverVars, lockVars, cacheVars, runnerVars>>

\* if _llama_rate_limiter is None:
sees_none(limiter) == limiter = 0

\* A thread of the pool takes its next image and enters analyze_with_llama,
\* up to the test of the global.
CheckLimiter(t) ==
    /\ tpc[t] = "idle"
    /\ todo[t] > 0
    /\ todo' = [todo EXCEPT ![t] = todo[t] - 1]
    /\ tpc' = [tpc EXCEPT ![t] = IF sees_none(llama_rate_limiter)
                                 THEN "construct" ELSE "acquire"]
    /\ UNCHANGED <<singletonFrame, llama_rate_limiter, instances, mine, admitted_by,
                   mismatched>>

\* LlamaRateLimiter(config): the constructor returns a new object.
ConstructLimiter(t) ==
    /\ tpc[t] = "construct"
    /\ instances' = instances + 1
    /\ mine' = [mine EXCEPT ![t] = instances + 1]
    /\ tpc' = [tpc EXCEPT ![t] = "assign"]
    /\ UNCHANGED <<singletonFrame, llama_rate_limiter, todo, admitted_by, mismatched>>

\* _llama_rate_limiter = <the new object>
AssignLimiter(t) ==
    /\ tpc[t] = "assign"
    /\ llama_rate_limiter' = mine[t]
    /\ tpc' = [tpc EXCEPT ![t] = "acquire"]
    /\ UNCHANGED <<singletonFrame, instances, mine, todo, admitted_by, mismatched>>

\* _llama_rate_limiter.acquire(): on the object the global names now.
AcquireOnGlobal(t) ==
    /\ tpc[t] = "acquire"
    /\ admitted_by' = [admitted_by EXCEPT ![t] = llama_rate_limiter]
    /\ tpc' = [tpc EXCEPT ![t] = "release"]
    /\ UNCHANGED <<singletonFrame, llama_rate_limiter, instances, mine, todo, mismatched>>

\* _llama_rate_limiter.release(...): on the object the global names now.
ReleaseOnGlobal(t) ==
    /\ tpc[t] = "release"
    /\ mismatched' = (mismatched \/ llama_rate_limiter # admitted_by[t])
    /\ admitted_by' = [admitted_by EXCEPT ![t] = 0]
    /\ tpc' = [tpc EXCEPT ![t] = "idle"]
    /\ UNCHANGED <<singletonFrame, llama_rate_limiter, instances, mine, todo>>

NextSingleton ==
    \E t \in Threads :
       \/ CheckLimiter(t)
       \/ ConstructLimiter(t)
       \/ AssignLimiter(t)
       \/ AcquireOnGlobal(t)
       \/ ReleaseOnGlobal(t)

\* The module just imported: the global is None, and analyze_images_parallel
\* has handed its images to the threads of the pool.
InitSingleton ==
    /\ kind = "llama"
    /\ max_requests_per_minute = default_requests_per_minute(kind)
    /\ adaptive_rate_limiting = TRUE
    /\ base_batch_size = 2
    /\ Constructed
    /\ DedupIdle
    /\ ContextIdle
    /\ ScoringIdle
    /\ RetryIdle
    /\ RequestIdle
    /\ DriverIdle
    /\ FallbackIdle
    /\ LlamaDriverIdle
    /\ LockIdle
    /\ CacheIdle
    /\ RunnerIdle
    /\ llama_rate_limiter = 0
    /\ instances = 0
    /\ tpc = [t \in Threads |-> "idle"]
    /\ mine = [t \in Threads |-> 0]
    /\ todo \in [Threads -> 1..MaxImagesPerThread]
    /\ admitted_by = [t \in Threads |-> 0]
    /\ mismatched = FALSE

SpecSingleton == InitSingleton /\ [][NextSingleton]_vars

(* ---- the limiter after its circuit has opened ---------------------------- *)
\* A limiter configured with one slot per worker (max_concurrent_requests
\* defaults to 3 and 15, above half_open_max_calls), whose circuit was opened
\* at time 0 by failure_threshold failures; no call is in flight.
InitOpened ==
    /\ kind \in {"llama", "gemini"}
    /\ max_requests_per_minute = default_requests_per_minute(kind)
    /\ adaptive_rate_limiting = TRUE
    /\ base_batch_size = 2
    /\ circuit_state = "OPEN"
    /\ failure_count = failure_threshold
    /\ last_failure_time = 0
    /\ half_open_calls = 0
    /\ request_times = <<>>
    /\ recent_errors = <<>>
    /\ throttle_factor = initial_throttle(kind)
    /\ now = 0
    /\ sem = NumWorkers
    /\ concurrent_requests = 0
    /\ pc = [w \in Workers |-> "idle"]
    /\ wake = [w \in Workers |-> 0]
    /\ attempt = [w \in Workers |-> 0]
    /\ relArg = [w \in Workers |-> TRUE]
    /\ relRet = [w \in Workers |-> "idle"]
    /\ calls = 0
    /\ acquired = [w \in Workers |-> FALSE]
    /\ rejected = [w \in Workers |-> FALSE]
    /\ gate = [w \in Workers |-> "none"]
    /\ failSince = [w \in Workers |-> FALSE]
    /\ releases = [w \in Workers |-> 0]
    /\ attempts_made = [w \in Workers |-> 0]
    /\ recorded = 0
    /\ failRun = failure_threshold
    /\ hoSucc = 0
    /\ lastFailAt = 0
    /\ batch_size = 0
    /\ NoFiltering

SpecOpened == InitOpened /\ [][NextProtocol]_vars

(* ---- the limiter under fair scheduling ----------------------------------- *)
\* The clock goes on past MaxTime: the model keeps `now` there and moves the
\* time stamps it compares with `now` one unit into the past instead. A stamp
\* that is already further back than any comparison can tell stays.
LaterTick ==
    /\ now = MaxTime
    /\ last_failure_time' = Max(last_failure_time - 1, Min(last_failure_time, 0))
    /\ lastFailAt' = Max(lastFailAt - 1, Min(lastFailAt, 0))
    /\ wake' = [w \in Workers |-> Max(wake[w] - 1, Min(wake[w], 0))]
    /\ UNCHANGED <<kind, outerVars, now, circuit_state, failure_count, half_open_calls,
                   sem, concurrent_requests, pc, attempt, relArg, relRet, calls, acquired,
                   rejected, gate, failSince, releases, attempts_made, recorded, failRun,
                   hoSucc>>

\* Calls made in a run under fair scheduling, and the threads that make them.
LiveCalls == 2
NumContenders == 2

Contenders == {w \in Workers : w <= NumContenders}

\* A worker calls acquire().
LiveCall(w) == StartUpTo(w, LiveCalls)

\* A step of thread w other than its wait at the semaphore.
Running(w) ==
    \/ AcquireCheck(w)
    \/ AcquireWait(w)
    \/ AcquireWake(w)
    \/ AcquireRecheck(w)
    \/ AcquireRecord(w)
    \/ ReleaseRecord(w)
    \/ ReleaseDecrement(w)
    \/ SemaphoreRelease(w)
    \/ ProtocolCall(w)
    \/ ProtocolRejected(w)

NextLive ==
    \/ Tick
    \/ LaterTick
    \/ \E w \in Contenders :
         \/ LiveCall(w)
         \/ SemaphoreAcquire(w)
         \/ Running(w)

\* Time passes, every thread that can run does (so a holder goes on to its
\* release()), and the semaphore is fair: a thread that can take a slot again
\* and again does take one.
Fair ==
    /\ WF_vars(Tick \/ LaterTick)
    /\ \A w \in Contenders : WF_vars(Running(w)) /\ SF_vars(SemaphoreAcquire(w))

\* The limiter as constructed, or with its circuit opened at time 0 by
\* failure_threshold failures; no call is in flight.
InitLive ==
    /\ kind \in {"llama", "gemini"}
    /\ max_requests_per_minute = default_requests_per_minute(kind)
    /\ adaptive_rate_limiting = TRUE
    /\ base_batch_size = 2
    /\ circuit_state \in {"CLOSED", "OPEN"}
    /\ failure_count = IF circuit_state = "OPEN" THEN failure_threshold ELSE 0
    /\ last_failure_time = 0
    /\ half_open_calls = 0
    /\ request_times = <<>>
    /\ recent_errors = <<>>
    /\ throttle_factor = initial_throttle(kind)
    /\ now = 0
    /\ sem = max_concurrent
    /\ concurrent_requests = 0
    /\ pc = [w \in Workers |-> "idle"]
    /\ wake = [w \in Workers |-> 0]
    /\ attempt = [w \in Workers |-> 0]
    /\ relArg = [w \in Workers |-> TRUE]
    /\ relRet = [w \in Workers |-> "idle"]
    /\ calls = 0
    /\ acquired = [w \in Workers |-> FALSE]
    /\ rejected = [w \in Workers |-> FALSE]
    /\ gate = [w \in Workers |-> "none"]
    /\ failSince = [w \in Workers |-> FALSE]
    /\ releases = [w \in Workers |-> 0]
    /\ attempts_made = [w \in Workers |-> 0]
    /\ recorded = 0
    /\ failRun = failure_count
    /\ hoSucc = 0
    /\ lastFailAt = 0
    /\ batch_size = 0
    /\ NoFiltering

SpecLive == InitLive /\ [][NextLive]_vars /\ Fair

(* ---- the analysis cache -------------------------------------------------- *)
\* The clock of this part counts half hours; cache_duration_hours is
\* config.cache_duration_hours (24 by default), in hours.
TicksPerHour == 2
cache_duration_hours == 1

\* The images that are analysed, named by their cache key
\* (get_image_hash_for_cache), and the calls made on them.
NumCacheKeys == 1
MaxCacheCalls == 3

\* config.ai_max_retries of the runs of this part (3 by default).
CacheRetries == 2

CacheKeys == 1..NumCacheKeys

CachingFunctions == {"analyze_image_with_ai", "analyze_single_image_llama"}

\* What analyze_with_gemini / analyze_with_llama / analyze_with_ollama give:
\* a record, None or an empty dict, or an exception.
AnalysisOutcomes == {"record", "empty", "raised"}

\* cache_key not in _analysis_cache
NoEntry == [present |-> FALSE, result |-> "None", timestamp |-> 0]

NotCaching == [fn |-> "none", at |-> "idle", key |-> 0]

cacheFrame == <<pipelineCore, scoreVars, retryVars, requestVars, driverVars, fallbackVars,
                llamaDriverVars, lockVars, singletonVars, runnerVars>>

\* cache_age_hours < config.cache_duration_hours taken as always true.
still_valid_forever(t, timestamp) == t >= timestamp

\* cache_age_hours = (time.time() - cache_entry['timestamp']) / 3600
\* if cache_age_hours < config.cache_duration_hours
\* The quotient is compared exactly: a / b < c is a < c * b for b > 0.
still_valid(t, timestamp) == (t - timestamp) < cache_duration_hours * TicksPerHour

\* if result: a record is truthy, None and {} are not.
truthy(result) == result = "record"

\* The call of a caching function up to the end of its cache check, all of it
\* inside "with _cache_lock": a valid entry is returned; an expired one is
\* deleted by analyze_image_with_ai and left by analyze_single_image_llama.
CacheCheck(t, fn, key) ==
    LET entry == analysis_cache[key] IN
    /\ apc[t].at = "idle"
    /\ cache_calls < MaxCacheCalls
    /\ cache_calls' = cache_calls + 1
    /\ IF entry.present
       THEN lookups' = lookups \cup {[age |-> now - entry.timestamp,
                                      result |-> entry.result,
                                      returned |-> still_valid(now, entry.timestamp)]}
       ELSE lookups' = lookups
    /\ IF entry.present /\ still_valid(now, entry.timestamp)
       THEN UNCHANGED <<apc, analysis_cache>>
       ELSE /\ apc' = [apc EXCEPT ![t] = [fn |-> fn, at |-> "analyze", key |-> key]]
            /\ analysis_cache' = IF entry.present /\ fn = "analyze_image_with_ai"
                                 THEN [analysis_cache EXCEPT ![key] = NoEntry]
                                 ELSE analysis_cache
    /\ UNCHANGED <<cacheFrame, stored>>

\* result after "for attempt in range(config.ai_max_retries)" in
\* analyze_image_with_ai, result being None before the loop: a truthy result
\* breaks the loop, an exception leaves result as it was.
RECURSIVE retry_result(_, _)
retry_result(outcomes, result) ==
    IF outcomes = <<>> \/ truthy(result)
    THEN result
    ELSE retry_result(Tail(outcomes),
                      IF Head(outcomes) = "raised" THEN result ELSE Head(outcomes))

\* What the function has in result when it comes to write the cache, or
\* "returned" when it has left before: analyze_image_with_ai returns None when
\* the image cannot be encoded; analyze_single_image_llama does so too, and
\* when its one analysis is falsy, and an exception leaves it.
result_to_store(fn, encoded, outcomes) ==
    IF ~encoded THEN "returned"
    ELSE IF fn = "analyze_image_with_ai" THEN retry_result(outcomes, "None")
    ELSE IF truthy(Head(outcomes)) THEN Head(outcomes)
    ELSE "returned"

\* The rest of the call: the image is encoded and analysed, with nothing of
\* the cache touched, then "if result and config.enable_caching" writes the
\* entry inside "with _cache_lock", stamped with time.time().
AnalyzeAndStore(t, encoded, outcomes) ==
    LET result == result_to_store(apc[t].fn, encoded, outcomes) IN
    /\ apc[t].at = "analyze"
    /\ Len(outcomes) = IF apc[t].fn = "analyze_image_with_ai" THEN CacheRetries ELSE 1
    /\ IF truthy(result)
       THEN analysis_cache' = [analysis_cache EXCEPT ![apc[t].key] =
                                  [present |-> TRUE, result |-> result, timestamp |-> now]]
       ELSE UNCHANGED analysis_cache
    /\ stored' = IF result = "returned" THEN stored
                 ELSE stored \cup {[result |-> result, written |-> truthy(result)]}
    /\ apc' = [apc EXCEPT ![t] = NotCaching]
    /\ UNCHANGED <<cacheFrame, cache_calls, lookups>>

NextCache ==
    \/ Tick
    \/ \E t \in Threads :
         \/ \E fn \in CachingFunctions, key \in CacheKeys : CacheCheck(t, fn, key)
         \/ \E encoded \in BOOLEAN, n \in {1, CacheRetries} :
               \E outcomes \in [1..n -> AnalysisOutcomes] :
                  AnalyzeAndStore(t, encoded, outcomes)

\* The module just imported, caching enabled: the cache is empty and the
\* threads of the pool have no image yet.
InitCache ==
    /\ kind \in {"llama", "gemini"}
    /\ max_requests_per_minute = default_requests_per_minute(kind)
    /\ adaptive_rate_limiting = TRUE
    /\ base_batch_size = 2
    /\ Constructed
    /\ DedupIdle
    /\ ContextIdle
    /\ ScoringIdle
    /\ RetryIdle
    /\ RequestIdle
    /\ DriverIdle
    /\ FallbackIdle
    /\ LlamaDriverIdle
    /\ LockIdle
    /\ SingletonIdle
    /\ RunnerIdle
    /\ analysis_cache = [k \in CacheKeys |-> NoEntry]
    /\ apc = [t \in Threads |-> NotCaching]
    /\ cache_calls = 0
    /\ lookups = {}
    /\ stored = {}

SpecCache == InitCache /\ [][NextCache]_vars

(* ---- the runner of the web UI -------------------------------------------- *)
\* The organizer processes one run of the server launches.
MaxLaunched == 2

\* Popen.returncode: None until poll() or wait() has seen the process end.
ReturnCodes == {"zero", "nonzero"}

Launched == 1..Len(launched)

runnerFrame == <<pipelineCore, scoreVars, retryVars, requestVars, driverVars, fallbackVars,
                 llamaDriverVars, lockVars, singletonVars, cacheVars>>

\* process.poll() / process.wait() on a list of Popen objects: the object
\* of an ended process takes its status as returncode.
reaped(procs, p) ==
    IF procs[p].alive THEN procs
    ELSE [procs EXCEPT ![p] = [@ EXCEPT !.returncode = procs[p].status]]

\* state.process is not None and state.process.poll() is None
running(procs, proc) == proc # 0 /\ procs[proc].alive

\* The organizer process p ends by itself, with a status.
ProcessExits(p, status) ==
    /\ launched[p].alive
    /\ launched' = [launched EXCEPT ![p] = [@ EXCEPT !.alive = FALSE, !.status = status]]
    /\ UNCHANGED <<runnerFrame, process, exit_code, finished_time, logs, capture, request>>

\* start_run: if state.is_running(): raise HTTPException(409); the handlers
\* are coroutines of one event loop, so one runs at a time.
StartRunCheck ==
    /\ request.handler = "none"
    /\ Len(launched) < MaxLaunched
    /\ launched' = IF process = 0 THEN launched ELSE reaped(launched, process)
    /\ request' = IF running(launched, process)
                  THEN NoRequest("409 Organizer is already running")
                  ELSE [NoRequest("none") EXCEPT !.handler = "start_run", !.at = "start"]
    /\ UNCHANGED <<runnerFrame, process, exit_code, finished_time, logs, capture>>

\* _start_process(command), all of it inside "with state.lock", then the
\* capture thread of the new process is started.
StartProcess ==
    LET new == Len(launched) + 1 IN
    /\ request.handler = "start_run"
    /\ request.at = "start"
    /\ IF running(launched, process)
       THEN /\ request' = NoRequest("409 Process already running")
            /\ UNCHANGED <<launched, process, exit_code, finished_time, logs, capture>>
       ELSE /\ logs' = {new}
            /\ exit_code' = "None"
            /\ finished_time' = "None"
            /\ launched' = Append(IF process = 0 THEN launched
                                  ELSE reaped(launched, process),
                                  [alive |-> TRUE, status |-> "None", returncode |-> "None"])
            /\ process' = new
            /\ capture' = Append(capture, "reading")
            /\ request' = NoRequest("started")
    /\ UNCHANGED runnerFrame

\* stop_run(force): if not state.is_running(): return {"status": "idle"}
StopRunCheck(force) ==
    /\ request.handler = "none"
    /\ Len(launched) > 0
    /\ launched' = IF process = 0 THEN launched ELSE reaped(launched, process)
    /\ request' = IF running(launched, process)
                  THEN [NoRequest("none") EXCEPT !.handler = "stop_run", !.at = "read",
                                                 !.force = force]
                  ELSE NoRequest("idle")
    /\ UNCHANGED <<runnerFrame, process, exit_code, finished_time, logs, capture>>

\* _stop_process: with state.lock: process = state.process
\* if process is None or process.poll() is not None: return False
StopRead ==
    /\ request.handler = "stop_run"
    /\ request.at = "read"
    /\ launched' = IF process = 0 THEN launched ELSE reaped(launched, process)
    /\ request' = IF running(launched, process)
                  THEN [request EXCEPT !.at = "terminate", !.proc = process]
                  ELSE NoRequest("stopped")
    /\ UNCHANGED <<runnerFrame, process, exit_code, finished_time, logs, capture>>

\* _append_log("Stopping process..."); process.terminate()
StopTerminate ==
    /\ request.handler = "stop_run"
    /\ request.at = "terminate"
    /\ logs' = logs \cup {request.proc}
    /\ request' = [request EXCEPT !.at = "wait"]
    /\ UNCHANGED <<runnerFrame, launched, process, exit_code, finished_time, capture>>

\* process.wait(timeout=10): the process has ended within ten seconds of the
\* signal, or it has not and TimeoutExpired is raised; then process.kill()
\* if force, else the exception goes on.
StopWait(in_time) ==
    LET p == request.proc IN
    /\ request.handler = "stop_run"
    /\ request.at = "wait"
    /\ in_time \/ launched[p].alive
    /\ launched' =
          IF in_time
          THEN [launched EXCEPT ![p] =
                   [alive |-> FALSE,
                    status |-> IF launched[p].alive THEN "nonzero" ELSE launched[p].status,
                    returncode |-> IF launched[p].alive THEN "nonzero"
                                   ELSE launched[p].status]]
          ELSE IF request.force
          THEN [launched EXCEPT ![p] = [@ EXCEPT !.alive = FALSE, !.status = "nonzero"]]
          ELSE launched
    /\ request' = [request EXCEPT !.at = "finally",
                                  !.timed_out = ~in_time /\ ~request.force]
    /\ UNCHANGED <<runnerFrame, process, exit_code, finished_time, logs, capture>>

\* finally: with state.lock: ...; then stop_run answers, or on TimeoutExpired
\* calls _stop_process(force=True).
StopFinally ==
    LET p == request.proc IN
    /\ request.handler = "stop_run"
    /\ request.at = "finally"
    /\ process' = IF process = p THEN 0 ELSE process
    /\ finished_time' = "set"
    /\ exit_code' = launched[p].returncode
    /\ request' = IF request.timed_out
                  THEN [request EXCEPT !.at = "read", !.force = TRUE, !.timed_out = FALSE]
                  ELSE NoRequest("stopped")
    /\ UNCHANGED <<runnerFrame, launched, logs, capture>>

\* _capture_process_output(process): _append_log(line.rstrip()) for a line of
\* the output of p.
CaptureLine(p) ==
    /\ capture[p] = "reading"
    /\ logs' = logs \cup {p}
    /\ UNCHANGED <<runnerFrame, launched, process, exit_code, finished_time, capture,
                   request>>

\* The output of p has ended; process.wait() returns.
CaptureEnd(p) ==
    /\ capture[p] = "reading"
    /\ ~launched[p].alive
    /\ launched' = reaped(launched, p)
    /\ capture' = [capture EXCEPT ![p] = "finally"]
    /\ UNCHANGED <<runnerFrame, process, exit_code, finished_time, logs, request>>

\* finally: with state.lock: state.exit_code = process.returncode ...
CaptureFinally(p) ==
    /\ capture[p] = "finally"
    /\ exit_code' = launched[p].returncode
    /\ finished_time' = "set"
    /\ process' = IF process = p THEN 0 ELSE process
    /\ logs' = logs \cup {p}
    /\ capture' = [capture EXCEPT ![p] = "done"]
    /\ UNCHANGED <<runnerFrame, launched, request>>

NextRunner ==
    \/ StartRunCheck
    \/ StartProcess
    \/ \E force \in BOOLEAN : StopRunCheck(force)
    \/ StopRead
    \/ StopTerminate
    \/ \E in_time \in BOOLEAN : StopWait(in_time)
    \/ StopFinally
    \/ \E p \in Launched :
         \/ \E status \in ReturnCodes : ProcessExits(p, status)
         \/ CaptureLine(p)
         \/ CaptureEnd(p)
         \/ CaptureFinally(p)

\* The server just imported: state = RunnerState().
InitRunner ==
    /\ kind \in {"llama", "gemini"}
    /\ max_requests_per_minute = default_requests_per_minute(kind)
    /\ adaptive_rate_limiting = TRUE
    /\ base_batch_size = 2
    /\ Constructed
    /\ DedupIdle
    /\ ContextIdle
    /\ ScoringIdle
    /\ RetryIdle
    /\ RequestIdle
    /\ DriverIdle
    /\ FallbackIdle
    /\ LlamaDriverIdle
    /\ LockIdle
    /\ SingletonIdle
    /\ CacheIdle
    /\ RunnerIdle

SpecRunner == InitRunner /\ [][NextRunner]_vars

(* ======================================================================= *)
(* Properties                                                              *)
(* ======================================================================= *)

Holders == {w \in Workers : pc[w] = "holding"}

\* A step of worker w.
Steps(w) == pc'[w] # pc[w]

\* release() recorded an outcome in this step, and which one.
Recorded == recorded' # recorded
RecordedFailure == Recorded /\ failRun' > 0
RecordedSuccess == Recorded /\ failRun' = 0

\* C1: with callers that release exactly once per acquire() that returned,
\* the workers that have returned from acquire() and not yet called release()
\* number at most max_concurrent, and 0 <= concurrent_requests <= max_concurrent.
C1_HoldersBounded ==
    /\ Cardinality(Holders) <= max_concurrent
    /\ 0 <= concurrent_requests
    /\ concurrent_requests <= max_concurrent

\* A worker holds the last slot while another waits at the semaphore.
C1_Witness ==
    \E w, v \in Workers :
        pc[w] = "holding" /\ pc[v] = "acq_sem" /\ sem = 0 /\ Cardinality(Holders) = max_concurrent

\* C2: in analyze_with_llama an acquire() that returned is followed by exactly
\* one release(): never two, and not zero when the function returns.
C2_ExactlyOneRelease ==
    [][\A w \in Workers :
          kind = "llama" =>
              /\ acquired'[w] => releases'[w] <= 1
              /\ (acquired[w] /\ pc'[w] = "idle" /\ Steps(w)) => releases[w] = 1]_vars

\* C3: once acquire() has rejected a caller, what that caller does to handle
\* the rejection leaves the semaphore, concurrent_requests, failure_count and
\* last_failure_time as they were.
C3_RejectionTouchesNothing ==
    [][\A w \in Workers :
          (rejected[w] /\ Steps(w)) =>
              UNCHANGED <<sem, concurrent_requests, failure_count, last_failure_time>>]_vars

\* C4: no release(), matched or not, raises the semaphore above max_concurrent
\* or makes concurrent_requests negative.
C4_UnmatchedReleaseGuarded ==
    /\ sem <= max_concurrent
    /\ concurrent_requests >= 0

\* C5: from a fresh limiter, a run of fewer than failure_threshold failures
\* leaves the circuit CLOSED, the failure_threshold-th consecutive failure
\* opens it in that step, and failure_threshold - 1 failures followed by one
\* success leave it CLOSED.
C5_OpensAtThreshold ==
    [][/\ (failRun' = recorded' /\ recorded' < failure_threshold)
            => circuit_state' = "CLOSED"
       /\ (Recorded /\ failRun' = recorded' /\ recorded' = failure_threshold)
            => circuit_state' = "OPEN"
       /\ (RecordedSuccess /\ failRun = recorded /\ recorded = failure_threshold - 1)
            => circuit_state' = "CLOSED"]_vars

\* Exactly failure_threshold failures have been recorded and the circuit is OPEN.
C5_Witness ==
    recorded = failure_threshold /\ failRun = failure_threshold /\ circuit_state = "OPEN"

\* C6: the circuit goes from CLOSED to OPEN only on a failure that completes a
\* run of failure_threshold failures with no success in between.
C6_OpensOnlyOnConsecutiveFailures ==
    [][(circuit_state = "CLOSED" /\ circuit_state' = "OPEN")
          => (RecordedFailure /\ failRun' >= failure_threshold)]_vars

\* C7: the circuit leaves OPEN only in an is_circuit_open() step, only to
\* HALF_OPEN, and only when more than recovery_timeout has passed since the
\* latest recorded failure; recording an outcome in OPEN leaves it OPEN.
C7_LeavesOpenOnlyLazily ==
    [][(circuit_state = "OPEN" /\ circuit_state' # "OPEN") =>
          /\ circuit_state' = "HALF_OPEN"
          /\ now - lastFailAt > recovery_timeout
          /\ ~Recorded
          /\ \E w \in Workers : pc[w] \in {"acq_check", "acq_recheck"} /\ Steps(w)]_vars

\* The circuit recovered to HALF_OPEN although failures were recorded after it
\* had opened.
C7_Witness ==
    circuit_state = "HALF_OPEN" /\ failure_count > failure_threshold

\* C8: in HALF_OPEN a recorded failure opens the circuit in that step; a
\* recorded success closes it exactly when it is the half_open_max_calls-th
\* since HALF_OPEN was entered, and failure_count is then 0; nothing else
\* moves the circuit out of HALF_OPEN.
C8_HalfOpenTransitions ==
    [][circuit_state = "HALF_OPEN" =>
          /\ RecordedFailure => circuit_state' = "OPEN"
          /\ RecordedSuccess =>
                IF hoSucc' = half_open_max_calls
                THEN circuit_state' = "CLOSED" /\ failure_count' = 0
                ELSE circuit_state' = "HALF_OPEN" /\ hoSucc' < half_open_max_calls
          /\ ~Recorded => circuit_state' = "HALF_OPEN"]_vars

\* The circuit has closed on the half_open_max_calls-th success.
C8_Witness ==
    circuit_state = "CLOSED" /\ hoSucc = half_open_max_calls /\ failure_count = 0

C10_WaitsThenAdmitted ==
    [][\A w \in Workers :
          (gate[w] = "slept" /\ ~failSince[w]) =>
              /\ pc[w] = "acq_sleep" => wake[w] = lastFailAt + recovery_timeout
              /\ (pc[w] = "acq_recheck" /\ Steps(w)) =>
                    /\ pc'[w] = "acq_sem"
                    /\ circuit_state' \in {"HALF_OPEN", "CLOSED"}
                    /\ circuit_state = "OPEN" => circuit_state' = "HALF_OPEN"]_vars

\* A caller that waited at the OPEN circuit now holds a slot.
C10_Witness ==
    \E w \in Workers : gate[w] = "slept" /\ ~failSince[w] /\ pc[w] = "holding"

\* The call starts recorded in the rate window that ends at time n.
started_in_window(rt, n) == Cardinality({i \in 1..Len(rt) : n - rt[i] < rate_window})

\* C11: whenever the Llama limiter's acquire() admits a call, the call starts
\* recorded within the rate window that ends with this call, this call
\* included, number at most effective_limit.
C11_AdmittedWithinQuota ==
    [][\A w \in Workers :
          (pc[w] = "acq_append" /\ pc'[w] = "holding") =>
              started_in_window(request_times', now)
                  <= effective_limit(max_requests_per_minute, throttle_factor)]_vars

\* Worker w runs the locked block of release() in this step.
Adjusts(w) == pc[w] = "rel_dec" /\ pc'[w] = "rel_sem"

\* error_rate > 0.05, the intermediate watermark of both limiters, and
\* error_rate < 0.02 (Llama) or 0.01 (Gemini), the low one, for the error rate
\* errors / total.
above_watermark(errors, total) == total > 0 /\ errors * 100 > 5 * total
below_watermark(k, errors, total) ==
    total > 0 /\ errors * 100 < (IF k = "llama" THEN 2 ELSE 1) * total

\* C13: a release() made while the rolling error rate is above the
\* intermediate watermark (so also when it is above the high one) never
\* raises throttle_factor, and one made while it is below the low watermark
\* never lowers it.
C13_ThrottleFollowsErrorRate ==
    [][\A w \in Workers :
          Adjusts(w) =>
              LET errors == Len(recent_errors')
                  total == total_recent(request_times, now)
              IN  /\ above_watermark(errors, total) => throttle_factor' <= throttle_factor
                  /\ below_watermark(kind, errors, total)
                        => throttle_factor' >= throttle_factor]_vars

\* The floor of throttle_factor: 0.3 (Llama), 0.2 (Gemini).
min_factor(k) == IF k = "llama" THEN 300 ELSE 200

\* C12: whatever outcomes release() is given, throttle_factor stays within
\* [min_factor, 1.0]: [0.3, 1.0] for the Llama limiter, [0.2, 1.0] for the
\* Gemini limiter.
C12_ThrottleInRange ==
    /\ min_factor(kind) <= throttle_factor
    /\ throttle_factor <= Unit

\* release() has pulled the Gemini throttle_factor down to its floor.
C12_Witness ==
    kind = "gemini" /\ throttle_factor = min_factor(kind) /\ recorded > 0

\* C14: get_optimal_batch_size() returns 1 whenever circuit_state is OPEN,
\* for every throttle_factor, adaptive_rate_limiting and base batch size.
C14_OneWhenOpen ==
    (batch_size # 0 /\ circuit_state = "OPEN") => batch_size = 1

\* The hard per-service maximum: 4 (Llama), 3 (Gemini).
hard_maximum(k) == IF k = "llama" THEN 4 ELSE 3

\* C15: with the circuit not OPEN, the value get_optimal_batch_size()
\* returns is at most the hard maximum of the service, and no lower
\* throttle_factor would have given a larger one under the same configuration.
C15_MonotoneAndCapped ==
    (batch_size # 0 /\ circuit_state # "OPEN") =>
        /\ batch_size <= hard_maximum(kind)
        /\ \A t \in BatchThrottles(kind) :
              t <= throttle_factor =>
                  get_optimal_batch_size(kind, circuit_state, t, adaptive_rate_limiting,
                                         base_batch_size) <= batch_size

\* The images of the k-th duplicate group and the first of them, its seed.
members(k) == Range(groups[k])
seed(k) == groups[k][1]

\* C16: the duplicate groups partition the hashed images handled so far: no
\* image is twice in a group or in two groups, an image is kept exactly when
\* it is the seed of its group, and when the function returns every hashed
\* image is in a group and kept seeds plus skipped images number the hashed
\* images.
C16_GroupsPartitionHashed ==
    /\ \A k \in DOMAIN groups : Cardinality(members(k)) = Len(groups[k])
    /\ \A k, l \in DOMAIN groups : k # l => members(k) \cap members(l) = {}
    /\ UNION {members(k) : k \in DOMAIN groups} = processed
    /\ \A k \in DOMAIN groups : \A path \in members(k) :
          (path = seed(k)) <=> (path \in Range(unique_paths))
    /\ fpc = "done" =>
          /\ processed = Range(hashes)
          /\ Len(groups) + skipped_count = Len(hashes)

\* The function returned with two groups, one of which absorbed an image.
C16_Witness ==
    /\ fpc = "done"
    /\ Len(groups) >= 2
    /\ skipped_count >= 1

\* A pass of the outer loop opens a group in this step.
OpensGroup == fpc = "grouping" /\ Len(groups') = Len(groups) + 1

\* C17: the group a seed opens takes in exactly the images that are still
\* unclaimed and within threshold of the seed, whatever their distance to other
\* members; and a seed with images at distances 1, 2 and 10 from it and
\* threshold 3 ends as two groups, the three near images and the far one.
C17_AbsorbedBySeedDistance ==
    [][/\ OpensGroup =>
             LET group == groups'[Len(groups')]
             IN  \A path \in Range(hashes) \ {group[1]} :
                    path \in Range(group)
                        <=> /\ path \notin processed
                            /\ Hamming(hash_of(group[1]), hash_of(path)) <= threshold
       /\ (fpc' = "done" /\ image_paths = Scenario /\ threshold = 3) =>
             {Range(groups'[k]) : k \in DOMAIN groups'} = {{1, 2, 3}, {4}}]_vars

\* The scenario has been grouped with the far image hashed first.
C17_Witness ==
    /\ fpc = "done"
    /\ image_paths = Scenario
    /\ hashes[1] = 4
    /\ Len(groups) = 2

\* C18: the image kept for each duplicate group is the earliest image of the
\* group in the input list.
C18_SeedIsEarliestInInput ==
    fpc = "done" =>
        \A k \in DOMAIN groups : \A path \in members(k) : seed(k) <= path

\* How often path occurs in the list seq.
Occurrences(seq, path) == Cardinality({n \in 1..Len(seq) : seq[n] = path})

\* C19: an image whose hashing failed is never compared or absorbed and is
\* once in the list returned; the other images are all grouped, and while
\* the function has not returned it can always take its next step.
C19_FailedPassThrough ==
    /\ \A path \in DOMAIN image_paths :
          ~image_paths[path].ok =>
              /\ path \notin Range(hashes)
              /\ path \notin processed
              /\ fpc = "done" => Occurrences(unique_paths, path) = 1
    /\ fpc = "done" =>
          \A path \in DOMAIN image_paths : image_paths[path].ok => path \in processed
    /\ fpc # "done" => ENABLED NextDedup

\* The first image failed to hash, later ones were grouped as duplicates,
\* and the function returned.
C19_Witness ==
    /\ fpc = "done"
    /\ Len(image_paths) >= 3
    /\ ~image_paths[1].ok
    /\ skipped_count >= 1

\* The context group photo n belongs to, and the groups built before group g.
ContextMembers(g) == Range(context_groups[g])
ClaimedBefore(g) == UNION {ContextMembers(h) : h \in 1..(g - 1)}

\* C20: the context groups partition the records handled so far, in input
\* order: every record before the loop index is in exactly one group, each
\* group starts with its seed, and a later record is in the group exactly
\* when no earlier group claimed it and its similarity to the seed is at
\* least contextual_similarity_threshold, whatever its similarity to the
\* other members.
C20_ContextClustersBySeed ==
    cpc \in {"grouping", "done"} /\ enable_contextual_filtering =>
        /\ \A n \in 1..Len(analyzed_data) :
              /\ n < ci => \E g \in 1..Len(context_groups) : n \in ContextMembers(g)
              /\ \A g, h \in 1..Len(context_groups) :
                    n \in ContextMembers(g) /\ n \in ContextMembers(h) => g = h
        /\ \A g \in 1..Len(context_groups) :
              LET group == context_groups[g]
                  photo1 == group[1]
              IN  /\ photo1 \notin ClaimedBefore(g)
                  /\ \A m \in 1..(Len(group) - 1) : group[m] < group[m + 1]
                  /\ \A n \in 1..Len(analyzed_data) :
                        n \in ContextMembers(g) <=>
                           \/ n = photo1
                           \/ /\ n > photo1
                              /\ n \notin ClaimedBefore(g)
                              /\ meets_threshold(calculate_contextual_similarity(
                                     analyzed_data[photo1], analyzed_data[n]))
        /\ \A g \in 1..(Len(context_groups) - 1) :
              context_groups[g][1] < context_groups[g + 1][1]

\* The grouping has finished with a group of several photos and a later
\* photo left out of it that is similar to a member but not to the seed.
C20_Witness ==
    /\ cpc = "done"
    /\ enable_contextual_filtering
    /\ \E g \in 1..Len(context_groups) : \E m, n \in 1..Len(analyzed_data) :
          /\ m \in ContextMembers(g)
          /\ m # context_groups[g][1]
          /\ n > m
          /\ n \notin ContextMembers(g)
          /\ n \notin ClaimedBefore(g)
          /\ meets_threshold(calculate_contextual_similarity(
                 analyzed_data[m], analyzed_data[n]))
          /\ ~meets_threshold(calculate_contextual_similarity(
                 analyzed_data[context_groups[g][1]], analyzed_data[n]))

max_photos_per_context == 3

\* The positions of filtered_photos taken by photos of context group g.
ReturnedFrom(g) ==
    {k \in 1..Len(filtered_photos) : filtered_photos[k] \in ContextMembers(g)}

\* C21: with contextual filtering enabled the function returns one photo for
\* each context group and no more (so never more than
\* max_photos_per_context), the k-th returned photo coming from the k-th
\* group, the groups being in the order of their seeds; a group of one
\* contributes its only member, and every returned photo is one of the input.
C21_OnePerCluster ==
    cpc = "done" /\ enable_contextual_filtering =>
        /\ Len(filtered_photos) = Len(context_groups)
        /\ \A g \in 1..Len(context_groups) :
              /\ filtered_photos[g] \in ContextMembers(g)
              /\ ReturnedFrom(g) = {g}
              /\ Cardinality(ReturnedFrom(g)) <= max_photos_per_context
              /\ Len(context_groups[g]) = 1 =>
                    filtered_photos[g] = context_groups[g][1]
        /\ \A g \in 1..(Len(context_groups) - 1) :
              context_groups[g][1] < context_groups[g + 1][1]
        /\ \A k \in 1..Len(filtered_photos) :
              filtered_photos[k] \in 1..Len(analyzed_data)

\* The function has returned fewer photos than it was given: a group of
\* several photos gave one that is not its seed, and a group of one follows.
C21_Witness ==
    /\ cpc = "done"
    /\ enable_contextual_filtering
    /\ \E g, h \in 1..Len(context_groups) :
          /\ g < h
          /\ Len(context_groups[g]) > 1
          /\ filtered_photos[g] # context_groups[g][1]
          /\ Len(context_groups[h]) = 1

\* C22: under strategy highest_score, and under a strategy name the function
\* does not know, the photo returned for a group of several is a member
\* whose composite score is the largest of the group, and every member
\* before it in the group has a smaller score.
C22_HighestScoreFirst ==
    /\ cpc = "done"
    /\ enable_contextual_filtering
    /\ contextual_selection_strategy \in {"highest_score", "other"}
    => \A g \in 1..Len(context_groups) :
          LET group == context_groups[g]
              best == filtered_photos[g]
              score(p) == get_composite_score(analyzed_data[p])
          IN  Len(group) > 1 =>
                 /\ best \in ContextMembers(g)
                 /\ \A m \in 1..Len(group) : score(group[m]) <= score(best)
                 /\ \A m \in 1..Len(group) :
                       group[m] < best => score(group[m]) < score(best)

\* Under an unknown strategy name a group had two members tied for the
\* largest composite score, after a member with a smaller one.
C22_Witness ==
    /\ cpc = "done"
    /\ enable_contextual_filtering
    /\ contextual_selection_strategy = "other"
    /\ \E g \in 1..Len(context_groups) : \E l, m, n \in ContextMembers(g) :
          /\ l < m /\ m < n
          /\ filtered_photos[g] = m
          /\ get_composite_score(analyzed_data[l]) < get_composite_score(analyzed_data[m])
          /\ get_composite_score(analyzed_data[n]) = get_composite_score(analyzed_data[m])

\* C23: under strategy most_unique the photo returned for a group of several
\* has the lowest average similarity to the other members, and no member
\* with the same average has a higher composite score.
C23_MostUniqueTieByScore ==
    /\ cpc = "done"
    /\ enable_contextual_filtering
    /\ contextual_selection_strategy = "most_unique"
    => \A g \in 1..Len(context_groups) :
          LET group == context_groups[g]
              best == filtered_photos[g]
              avg(p) == avg_similarity(analyzed_data, group, p)
          IN  Len(group) > 1 =>
                 \A m \in ContextMembers(g) :
                    /\ ~less(avg(m), avg(best))
                    /\ ~less(avg(best), avg(m)) =>
                          get_composite_score(analyzed_data[m])
                             <= get_composite_score(analyzed_data[best])

\* The sub-score of the response with 5.0 in the place of a missing one.
FiveIfMissing(f) == IF response[f].present THEN response[f].value ELSE 500

\* The tier of a stored composite_score, in hundredths.
TierByBreakpoints(score) ==
    IF score >= 850 THEN "premium"
    ELSE IF score >= 750 THEN "excellent"
    ELSE IF score >= 600 THEN "good"
    ELSE IF score >= 400 THEN "average"
    ELSE "poor"

C25_TierOfStoredScore ==
    spc = "scored" => analysis.instagram_tier = TierByBreakpoints(analysis.composite_score)

\* C26: the composite_score of a record is within [0, 10], and so is every
\* sub-score it holds.
C26_ScoresInRange ==
    spc = "scored" =>
        /\ 0 <= analysis.composite_score
        /\ analysis.composite_score <= 1000
        /\ \A f \in SubScores :
              analysis.scores[f].present =>
                 0 <= analysis.scores[f].value /\ analysis.scores[f].value <= 1000

\* Every attempt of worker w's current call has failed so far.
AllFailed(w) ==
    /\ attempts_made[w] > 0
    /\ Len(tries[w]) = attempts_made[w]
    /\ \A n \in 1..Len(tries[w]) : tries[w][n] # "ok"

\* C27: analyze_with_llama makes at most max_retries attempts for one image;
\* between two attempts it sleeps, each time longer than the time before,
\* and keeps the slot it acquired without releasing it; when every attempt
\* has failed it has made max_retries of them, calls release(success=False)
\* once and returns from there without a record.
C27_RetriesThenOneFailureRelease ==
    \A w \in Workers :
        /\ attempts_made[w] <= max_retries
        /\ pc[w] \in {"holding", "backoff"} =>
              /\ acquired[w]
              /\ releases[w] = 0
        /\ pc[w] \in {"holding", "backoff"} /\ attempts_made[w] > 0 =>
              /\ Len(backoff[w]) = attempts_made[w]
              /\ \A n \in 1..(Len(backoff[w]) - 1) : backoff[w][n] < backoff[w][n + 1]
        /\ AllFailed(w) /\ pc[w] \notin {"holding", "backoff"} =>
              /\ attempts_made[w] = max_retries
              /\ pc[w] \in {"rel_record", "rel_dec", "rel_sem"}
              /\ releases[w] = 1
              /\ ~relArg[w]
              /\ relRet[w] = "idle"

\* A status 500, a timeout and an error status in turn, two sleeps between
\* them, and release(success=False) about to finish.
C27_Witness ==
    /\ pc[1] = "rel_sem"
    /\ tries[1] = <<"500", "timeout", "error_status">>
    /\ backoff[1] = <<2, 4>>
    /\ AllFailed(1)
    /\ ~relArg[1]

\* C28: make_rate_limited_request makes at most ai_max_retries + 1 attempts;
\* after every failed attempt but the last it sleeps, each delay longer than
\* the one before, and the error is raised to the caller only when
\* ai_max_retries + 1 attempts have failed.
C28_RetriedUntilExhausted ==
    /\ Len(rtries) <= ai_max_retries + 1
    /\ \A n \in 1..(Len(delays) - 1) : delays[n] < delays[n + 1]
    /\ rpc = "raised" => Len(rtries) = ai_max_retries + 1

\* C29: in analyze_images_gemini_optimized every batch handed to the worker
\* pool has at most get_optimal_batch_size() images, evaluated when the batch
\* starts.
C29_BatchWithinOptimalSize ==
    \A n \in 1..Len(handed) : Len(handed[n].batch) <= handed[n].optimal

\* C30: when the batch request of analyze_batch_with_gemini fails, every image
\* of the batch gets an individual scoring call, and the function returns a
\* record for exactly the images whose individual call succeeded.
C30_FailedBatchFallsBack ==
    (bpc = "returned" /\ batch_error # "none") =>
        \A i \in 1..valid_paths :
            /\ individual[i] # "none"
            /\ individual[i] = "ok" <=> \E n \in 1..Len(results) : results[n] = i

\* The images whose scoring call returned a record, in time or not.
ProducedRecord == {img \in 1..limages : future_outcome[img] \in {"record", "late_record"}}

\* The images whose record future.result() returned within its timeout.
CollectedRecord == {img \in 1..limages : future_outcome[img] = "record"}

\* No image is submitted twice, a finished run has submitted every image
\* once, and the list holds no image twice.
SubmittedOnce ==
    /\ \A img \in 1..limages : submitted[img] <= 1
    /\ lpc = "done" =>
         /\ \A img \in 1..limages : submitted[img] = 1
         /\ successful_analyses = Len(llama_results)
         /\ Cardinality(Range(llama_results)) = Len(llama_results)

C32_AccessOnlyUnderLock == \A a \in accessed : a.held

\* C33: within one run at most one LlamaRateLimiter is ever created, and every
\* release() goes to the object whose acquire() admitted the call.
C33_OneLimiterPerRun == instances <= 1 /\ ~mismatched

\* C34: in every reachable state of a limiter driven through acquire() and
\* release(), failure_count is not negative, and a CLOSED circuit has
\* failure_count below failure_threshold.
C34_FailureCountInRange ==
    /\ failure_count >= 0
    /\ circuit_state = "CLOSED" => failure_count < failure_threshold

\* The circuit was opened by failure_threshold failures and has been closed
\* again by the successes recorded in HALF_OPEN.
C34_Witness ==
    /\ circuit_state = "CLOSED"
    /\ hoSucc >= half_open_max_calls
    /\ recorded >= failure_threshold + half_open_max_calls
    /\ failure_count = 0

\* The images kept so far whose hashing succeeded.
KeptHashed == {path \in Range(unique_paths) : image_paths[path].ok}

\* C35: any two images returned by filter_similar_images that were both
\* hashed are at a Hamming distance above threshold, in whatever order the
\* hashes arrive.
C35_KeptPairwiseFar ==
    \A a, b \in KeptHashed :
        a # b => Hamming(hash_of(a), hash_of(b)) > threshold

\* The function returned two hashed images, having skipped a third that is
\* within threshold of one of them.
C35_Witness ==
    /\ fpc = "done"
    /\ \E a, b \in KeptHashed, c \in processed \ KeptHashed :
          /\ a # b
          /\ Hamming(hash_of(a), hash_of(c)) <= threshold

\* The workers acquire() has admitted whose outcome release() has not yet
\* recorded.
AdmittedUnrecorded == {w \in Workers : acquired[w] /\ pc[w] \in {"holding", "rel_record"}}

\* C36: while the circuit is HALF_OPEN, the calls admitted since it became
\* HALF_OPEN (those whose success is recorded and those still in flight)
\* number at most half_open_max_calls.
C36_HalfOpenAdmitsProbesOnly ==
    circuit_state = "HALF_OPEN" =>
        hoSucc + Cardinality(AdmittedUnrecorded) <= half_open_max_calls

\* Thread w is inside acquire(): it has called it, and has neither returned
\* from it with a slot nor left it with the circuit-open exception.
InAcquire(w) ==
    pc[w] \in {"acq_check", "acq_calc", "acq_sleep", "acq_recheck", "backoff", "acq_sem",
               "slot_sleep", "acq_append", "acq_record"}

\* C37: when every holder of a slot goes on to release() and the semaphore is
\* fair, no worker stays inside acquire() for ever: every call of it returns
\* with a slot or is rejected because the circuit is open.
C37_AcquireReturns == \A w \in Workers : []<>(~InAcquire(w))

\* A caller waits for a slot that another worker holds, the clock being past
\* MaxTime.
C37_Witness ==
    /\ now = MaxTime
    /\ \E w, v \in Workers : pc[w] = "acq_sem" /\ pc[v] = "holding" /\ sem = 0
    /\ circuit_state = "HALF_OPEN"
    /\ calls = LiveCalls

\* C38: with caching enabled, a caching function returns an entry of the cache
\* only while the entry is younger than cache_duration_hours, and only
\* non-empty results are ever written to the cache, whatever the threads do.
C38_CacheFreshAndNonEmpty ==
    /\ \A l \in lookups :
          l.returned => /\ l.age < cache_duration_hours * TicksPerHour
                        /\ l.result = "record"
    /\ \A r \in stored : r.written => r.result = "record"
    /\ \A k \in CacheKeys : analysis_cache[k].present => analysis_cache[k].result = "record"

\* An entry was returned when it was a tick old, another was met when it had
\* expired and was not returned, and an analysis ended with an empty result,
\* which was not written.
C38_Witness ==
    /\ \E l \in lookups : l.returned /\ l.age > 0
    /\ \E l \in lookups : ~l.returned /\ l.age >= cache_duration_hours * TicksPerHour
    /\ \E r \in stored : r.result = "empty" /\ ~r.written

\* The organizer processes that are running.
Alive == {p \in Launched : launched[p].alive}

\* C39: at most one organizer process launched by the runner is alive at any
\* time.
C39_OneProcessAlive == Cardinality(Alive) <= 1

\* C40: while the most recently started process is running, exit_code and
\* finished_time are None and the log holds nothing about an earlier process.
C40_StateOfLatestProcess ==
    (Len(launched) > 0 /\ launched[Len(launched)].alive) =>
        /\ exit_code = "None"
        /\ finished_time = "None"
        /\ logs \subseteq {Len(launched)}

====
